---- MODULE Spec2Model ----
(***************************************************************************)
(* The signed playbook execution engine of the Cloudronix agent            *)
(* (package playbook: Verifier, Parser, Variables, Condition, Executor)    *)
(* and the job runner of the agent that feeds it (package agent).          *)
(*                                                                         *)
(* Modelling conventions                                                   *)
(*   - a Go string or []byte that the code only tests for emptiness and    *)
(*     equality is a sequence: <<>> is "" / nil, <<x>> is a value;         *)
(*   - a Go pointer is a sequence too: <<>> is nil, <<r>> points to r;     *)
(*   - SHA-256 is an injective wrapper [digest |-> content]; a signature   *)
(*     records the key that made it and the message it was made over;      *)
(*   - a `when` expression is the sequence of its blank-separated tokens,  *)
(*     "(" and ")" being tokens of their own.                              *)
(***************************************************************************)
EXTENDS Integers, Sequences, FiniteSets, TLC

\* Longest `tasks` list of the generated playbooks, and longest `tasks` list
\* of those made only of tasks that register and read the name "r".
MaxTasks == 2
MaxRegisterTasks == 3

\* Number of times the poll ticker fires, and of WebSocket notifications
MaxPolls == 2
MaxNotifications == 1

VARIABLES
    platform,          \* Executor.platform, Parser.platform (runtime.GOOS)
    orig,              \* the envelope as the control plane issued it
    sp,                \* the SignedPlaybook handed to Execute / DryRun
    mode,              \* "none", "execute" or "dryrun"
    pc,                \* position of the running Execute call
    report,            \* the ExecutionReport being built / returned
    retErr,            \* the error Execute / DryRun returned
    playbook,          \* <<>> or <<the parsed Playbook>>
    vars,              \* the Variables of the execution
    notifiedHandlers,  \* the set of notified handler names
    idx,               \* position in playbook.Tasks (task loop)
    hidx,              \* position in playbook.Handlers (handler loop)
    stack,             \* executeTask activations, innermost last
    ctxDone,           \* the cancellation token has tripped
    trace,             \* what the execution did, in order
    isRunning,         \* JobRunner.isRunning
    gpc,               \* position of each goroutine that calls RunOnce
    calls,             \* number of RunOnce calls each goroutine has made
    ret,               \* how the last CheckAndRunJobs call of each returned
    jobs,              \* per call: the fetched jobs not yet taken from the list
    job,               \* per call: <<>> or <<the job executeJob is running>>
    executed,          \* per call: the counter CheckAndRunJobs returns
    submitted,         \* per job: reports submitted to the control plane
    agentCtxDone,      \* the agent's context is cancelled
    condOperands,      \* the operands and the form of the expression evaluated
    condExpression,    \* the expression handed to Condition.Evaluate
    condResult,        \* <<>> or <<what Evaluate returned>>
    condSubstituted,   \* <<>> or <<what Substitute returned for "{{ name }}">>
    subInput,          \* the string or the params handed to Substitute / SubstituteMap
    subOutput,         \* <<>> or <<what the call returned>>
    host,              \* the file and the service the action handlers work on
    hcall,             \* the action and params a handler is called with
    hruns,             \* what each call of the handler's Execute returned
    wsPc,              \* runAgent: before the first Connect, or in its main loop
    wsConnected,       \* readMessages is running on a live connection
    wsDone,            \* the channel WebSocketClient.done: "open" or "closed"
    serverAccepts,     \* the control plane accepts WebSocket connections
    wsLosses,          \* how often the connection has been lost
    wsOutages,         \* how often the control plane has stopped accepting
    jobChannel,        \* the number of notifications queued in jobChannel
    wsDropped,         \* a notification found the channel full and was dropped
    issued,            \* the jobs the control plane has created
    pending            \* the jobs that are pending at the control plane

\* The state of the executor and the state of the job runner
execVars == <<platform, orig, sp, mode, pc, report, retErr, playbook, vars,
              notifiedHandlers, idx, hidx, stack, ctxDone, trace>>

jobVars == <<isRunning, gpc, calls, ret, jobs, job, executed, submitted, agentCtxDone>>

condVars == <<condOperands, condExpression, condResult, condSubstituted,
              subInput, subOutput>>

\* What a step of Execute / DryRun leaves alone, and what a step of the job
\* runner leaves alone
handlerVars == <<host, hcall, hruns>>

wsVars == <<wsPc, wsConnected, wsDone, serverAccepts, wsLosses, wsOutages,
            jobChannel, wsDropped, issued, pending>>

others == <<jobVars, condVars, handlerVars, wsVars>>

notJobs == <<execVars, condVars, handlerVars, wsVars>>

vars_all == <<execVars, jobVars, condVars, handlerVars, wsVars>>

-----------------------------------------------------------------------------
(* Schema constants                                                        *)

StatusPending    == "pending"
StatusApproved   == "approved"
StatusRejected   == "rejected"
StatusDeprecated == "deprecated"
StatusTest       == "test"

TaskStatusPending   == "pending"
TaskStatusRunning   == "running"
TaskStatusCompleted == "completed"
TaskStatusFailed    == "failed"
TaskStatusSkipped   == "skipped"

PlatformWindows == "windows"
PlatformLinux   == "linux"
PlatformDarwin  == "darwin"
PlatformAndroid == "android"

SchemaVersion == "1.0"

-----------------------------------------------------------------------------
(* Verifier                                                                *)

\* A digest that only depends on whether there is any content
Sha256SumWeak(content) == [digest |-> Len(content)]

\* sha256.Sum256: injective on the contents of the model.
Sha256Sum(content) == [digest |-> content]

\* hex.EncodeToString: the (non-empty) hex string of a digest.
HexEncode(hashBytes) == <<hashBytes>>

CalculateHash(content) == HexEncode(Sha256Sum(content))

\* The key pinned at enrolment, and a key the agent does not trust.
ServerKey   == "server"
AttackerKey == "attacker"

\* A signature made with `key` over `msg`, where form tells whether msg is
\* the raw digest or its hex string.
Sign(key, form, msg) == <<[key |-> key, form |-> form, msg |-> msg]>>

\* A verification that does not look at the key the signature was made with
Ed25519VerifyAnyKey(publicKey, hashBytes, sig) ==
    /\ Len(sig) = 1
    /\ sig[1].form = "raw"
    /\ sig[1].msg = hashBytes

\* ed25519.Verify(publicKey, message, sig) for a raw-digest message.
Ed25519Verify(publicKey, hashBytes, sig) ==
    /\ Len(sig) = 1
    /\ sig[1].key = publicKey
    /\ sig[1].form = "raw"
    /\ sig[1].msg = hashBytes

\* VerificationRecord as Verify first builds it.
NewRecord(s) ==
    [ExpectedHash      |-> s.SHA256Hash,
     CalculatedHash    |-> <<>>,
     HashVerified      |-> FALSE,
     SignatureVerified |-> FALSE,
     ApprovalStatus    |-> s.Status,
     ApprovalVerified  |-> FALSE,
     AllChecksPass     |-> FALSE,
     FailureReason     |-> ""]

\* An approval check that lets a deprecated playbook through
ApprovalAcceptedDeprecated(status) ==
    status = StatusApproved \/ status = StatusTest \/ status = StatusDeprecated

\* Line 144: the statuses Verify accepts
ApprovalAccepted(status) == status = StatusApproved \/ status = StatusTest

\* A Verify that looks at the approval status before the digest and the
\* signature
VerifyApprovalFirst(s) ==
    LET r0 == NewRecord(s)
        hashBytes == Sha256Sum(s.Content)
        calculatedHash == HexEncode(hashBytes)
        r1 == [r0 EXCEPT !.ApprovalVerified = TRUE]
        r2 == [r1 EXCEPT !.CalculatedHash = calculatedHash]
        r3 == [r2 EXCEPT !.HashVerified = TRUE]
        r4 == [r3 EXCEPT !.SignatureVerified = TRUE]
    IN  IF s.Content = <<>> THEN
            [record |-> [r0 EXCEPT !.FailureReason = "empty playbook content"],
             err |-> "ErrEmptyContent"]
        ELSE IF s.SHA256Hash = <<>> THEN
            [record |-> [r0 EXCEPT !.FailureReason = "missing playbook hash"],
             err |-> "ErrMissingHash"]
        ELSE IF Len(s.Signature) = 0 THEN
            [record |-> [r0 EXCEPT !.FailureReason = "missing playbook signature"],
             err |-> "ErrMissingSignature"]
        ELSE IF ~ApprovalAccepted(s.Status) THEN
            [record |-> [r0 EXCEPT !.FailureReason = "playbook status not accepted"],
             err |-> "ErrNotApproved"]
        ELSE IF calculatedHash # s.SHA256Hash THEN
            [record |-> [r2 EXCEPT !.FailureReason = "hash mismatch"],
             err |-> "ErrHashMismatch"]
        ELSE IF ~Ed25519Verify(ServerKey, hashBytes, s.Signature) THEN
            [record |-> [r3 EXCEPT !.FailureReason = "signature verification failed"],
             err |-> "ErrInvalidSignature"]
        ELSE
            [record |-> [r4 EXCEPT !.AllChecksPass = TRUE], err |-> "nil"]

\* Verifier.Verify: the record and the error it returns ("nil" for none).
Verify(s) ==
    LET r0 == NewRecord(s)
        hashBytes == Sha256Sum(s.Content)
        calculatedHash == HexEncode(hashBytes)
        r1 == [r0 EXCEPT !.CalculatedHash = calculatedHash]
        r2 == [r1 EXCEPT !.HashVerified = TRUE]
        r3 == [r2 EXCEPT !.SignatureVerified = TRUE]
        r4 == [r3 EXCEPT !.ApprovalVerified = TRUE]
    IN  IF s.Content = <<>> THEN
            [record |-> [r0 EXCEPT !.FailureReason = "empty playbook content"],
             err |-> "ErrEmptyContent"]
        ELSE IF s.SHA256Hash = <<>> THEN
            [record |-> [r0 EXCEPT !.FailureReason = "missing playbook hash"],
             err |-> "ErrMissingHash"]
        ELSE IF Len(s.Signature) = 0 THEN
            [record |-> [r0 EXCEPT !.FailureReason = "missing playbook signature"],
             err |-> "ErrMissingSignature"]
        ELSE IF calculatedHash # s.SHA256Hash THEN
            [record |-> [r1 EXCEPT !.FailureReason = "hash mismatch"],
             err |-> "ErrHashMismatch"]
        ELSE IF ~Ed25519Verify(ServerKey, hashBytes, s.Signature) THEN
            [record |-> [r2 EXCEPT !.FailureReason = "signature verification failed"],
             err |-> "ErrInvalidSignature"]
        ELSE IF ~ApprovalAccepted(s.Status) THEN
            [record |-> [r3 EXCEPT !.FailureReason = "playbook status not accepted"],
             err |-> "ErrNotApproved"]
        ELSE
            [record |-> [r4 EXCEPT !.AllChecksPass = TRUE], err |-> "nil"]

-----------------------------------------------------------------------------
(* Parser                                                                  *)

ActionCommand    == "command"
ActionFile       == "file"
ActionLineinfile == "lineinfile"
ActionEnv        == "env"
ActionService    == "service"
ActionRegistry   == "registry"
ActionSysctl     == "sysctl"
ActionDefaults   == "defaults"
ActionSettings   == "settings"
ActionPackage    == "package"

\* Parser.isSupportedVersion
isSupportedVersion(version) ==
    version = SchemaVersion \/ version = "1" \/ version = "1.0"

\* Parser.isValidPlatform
isValidPlatform(plat) ==
    plat \in {PlatformWindows, PlatformLinux, PlatformDarwin, PlatformAndroid}

\* Parser.isPlatformSupported, for the parser of host platform p
isPlatformSupported(p, platforms) ==
    \E i \in 1..Len(platforms) : platforms[i] = p

\* Parser.isValidAction
isValidAction(action) ==
    action \in {ActionCommand, ActionFile, ActionLineinfile, ActionEnv,
                ActionService, ActionRegistry, ActionSysctl, ActionDefaults,
                ActionSettings, ActionPackage}

\* Parser.validateActionPlatform: TRUE when the action is allowed on the
\* task's effective platform.
validateActionPlatform(p, action, taskPlatform) ==
    LET eff == IF taskPlatform = "" THEN p ELSE taskPlatform
    IN  CASE action = ActionRegistry -> eff = PlatformWindows
          [] action = ActionSysctl   -> eff = PlatformLinux
          [] action = ActionDefaults -> eff = PlatformDarwin
          [] action \in {ActionSettings, ActionPackage} -> eff = PlatformAndroid
          [] OTHER -> TRUE

\* The parameters validateActionParams requires of an action.
RequiredParams(action) ==
    CASE action = ActionCommand    -> {"command"}
      [] action = ActionFile       -> {"path"}
      [] action = ActionRegistry   -> {"path"}
      [] action = ActionSysctl     -> {"name"}
      [] action = ActionDefaults   -> {"domain", "key"}
      [] action = ActionSettings   -> {"namespace", "key"}
      [] action = ActionEnv        -> {"name"}
      [] action = ActionService    -> {"name"}
      [] action = ActionLineinfile -> {"path"}
      [] action = ActionPackage    -> {"name"}
      [] OTHER -> {}

\* Parser.validateActionParams
validateActionParams(action, params) ==
    RequiredParams(action) \subseteq DOMAIN params

\* A validateTask that accepts any retries and retry_delay
validateTaskAnyRetries(p, task) ==
    /\ task.Name # ""
    /\ task.Action # ""
    /\ isValidAction(task.Action)
    /\ validateActionPlatform(p, task.Action, task.Platform)
    /\ validateActionParams(task.Action, task.Params)

\* Parser.validateTask: TRUE when the task passes. The nested rollback task
\* is not looked at.
validateTask(p, task) ==
    /\ task.Name # ""
    /\ task.Action # ""
    /\ isValidAction(task.Action)
    /\ validateActionPlatform(p, task.Action, task.Platform)
    /\ validateActionParams(task.Action, task.Params)
    /\ task.Retries >= 0
    /\ task.RetryDelay >= 0

\* Parser.Validate after the version default has been applied.
Validate(p, pb) ==
    /\ isSupportedVersion(pb.Version)
    /\ pb.Name # ""
    /\ Len(pb.Tasks) # 0
    /\ Len(pb.Platforms) > 0 =>
          /\ \A i \in 1..Len(pb.Platforms) : isValidPlatform(pb.Platforms[i])
          /\ isPlatformSupported(p, pb.Platforms)
    /\ \A i \in 1..Len(pb.Tasks) : validateTask(p, pb.Tasks[i])
    /\ \A i \in 1..Len(pb.Handlers) : validateTask(p, pb.Handlers[i])

\* yaml.Unmarshal of the content into a Playbook: fails on text that is not
\* a YAML mapping of the schema; the zero Playbook for the empty text; the
\* fields of the document otherwise.
ZeroPlaybook ==
    [Version |-> "", Name |-> "", Platforms |-> <<>>, RequiresReboot |-> FALSE,
     Variables |-> <<>>, Tasks |-> <<>>, Handlers |-> <<>>, OnError |-> <<>>]

Unmarshal(content) ==
    IF content = <<>> THEN [ok |-> TRUE, pb |-> <<ZeroPlaybook>>]
    ELSE IF content[1].kind # "yaml" THEN [ok |-> FALSE, pb |-> <<>>]
    ELSE [ok |-> TRUE,
          pb |-> <<[Version        |-> content[1].version,
                    Name           |-> content[1].name,
                    Platforms      |-> content[1].platforms,
                    RequiresReboot |-> content[1].requires_reboot,
                    Variables      |-> content[1].variables,
                    Tasks          |-> content[1].tasks,
                    Handlers       |-> content[1].handlers,
                    OnError        |-> content[1].on_error]>>]

\* Parser.Parse for the parser of host platform p: the playbook (as a
\* pointer) and the error ("nil" for none).
Parse(p, content) ==
    LET u == Unmarshal(content)
        pb == IF u.pb[1].Version = ""
              THEN [u.pb[1] EXCEPT !.Version = SchemaVersion]
              ELSE u.pb[1]
    IN  IF ~u.ok THEN [pb |-> <<>>, err |-> "ParseError"]
        ELSE IF ~Validate(p, pb) THEN [pb |-> <<>>, err |-> "ValidationError"]
        ELSE [pb |-> <<pb>>, err |-> "nil"]

-----------------------------------------------------------------------------
(* Strings.  The code works on characters; the model works on the strings  *)
(* of a fixed vocabulary and tabulates what the character-level tests      *)
(* (regular expressions, prefixes, strconv) answer for them.               *)

\* varPattern: the text "{{ name }}" and the name it captures.
VarPattern ==
    ("{{ r.stdout }}" :> "r.stdout") @@ ("{{ r.bogus }}" :> "r.bogus") @@
    ("{{ s.status }}" :> "s.status") @@
    ("{{ who }}" :> "who") @@ ("{{ missing }}" :> "missing") @@
    ("{{ platform }}" :> "platform") @@ ("{{ arch }}" :> "arch") @@
    ("{{ os_family }}" :> "os_family") @@
    ("{{ r.stderr }}" :> "r.stderr") @@ ("{{ tpl }}" :> "tpl") @@ ("{{ home }}" :> "home") @@
    ("{{ env.TPL }}" :> "env.TPL") @@
    ("{{ env.DEBUG }}" :> "env.DEBUG") @@ ("{{ env.UNSET }}" :> "env.UNSET")

\* envPattern: the text "${NAME}" and the name it captures.
EnvPattern ==
    ("${DEBUG}" :> "DEBUG") @@ ("${UNSET}" :> "UNSET") @@ ("${TPL}" :> "TPL") @@
    ("${CHAIN}" :> "CHAIN")

\* strings.HasPrefix(name, "env.") and the rest of the name.
EnvPrefixed ==
    ("env.DEBUG" :> "DEBUG") @@ ("env.UNSET" :> "UNSET") @@ ("env.TPL" :> "TPL")

\* strings.SplitN(name, ".", 2) of the names that contain a ".".
Dotted ==
    ("r.stdout" :> <<"r", "stdout">>) @@ ("r.stderr" :> <<"r", "stderr">>) @@
    ("r.exit_code" :> <<"r", "exit_code">>) @@ ("r.status" :> <<"r", "status">>) @@
    ("r.changed" :> <<"r", "changed">>) @@ ("r.bogus" :> <<"r", "bogus">>) @@
    ("s.status" :> <<"s", "status">>) @@ ("s.changed" :> <<"s", "changed">>) @@
    ("env.DEBUG" :> <<"env", "DEBUG">>) @@ ("env.UNSET" :> <<"env", "UNSET">>) @@
    ("env.TPL" :> <<"env", "TPL">>)

\* A quoted literal and the text between its quotes.
Quoted ==
    ("'installed'" :> "installed") @@ ("'completed'" :> "completed") @@
    ("'skipped'" :> "skipped") @@ ("'true'" :> "true") @@ ("''" :> "") @@
    ("'No'" :> "No") @@ ("'OFF'" :> "OFF") @@ ("' false '" :> " false ") @@
    ("' '" :> " ") @@ ("'0'" :> "0") @@ ("'Null'" :> "Null") @@
    ("'beos'" :> "beos") @@ ("'linux'" :> "linux") @@ ("'android'" :> "android") @@
    ("'world'" :> "world") @@ ("'custom'" :> "custom") @@ ("'amd64'" :> "amd64")

\* strconv.ParseFloat: the strings that parse, and their values.
Numeric == ("0" :> 0) @@ ("1" :> 1) @@ ("2" :> 2)

\* strconv.Itoa / fmt.Sprintf("%d")
Itoa(n) == CASE n = 0 -> "0" [] n = 1 -> "1" [] n = 2 -> "2" [] OTHER -> "-1"

\* strconv.FormatBool / fmt.Sprintf("%t")
FormatBool(b) == IF b THEN "true" ELSE "false"

\* strings.TrimSpace(strings.ToLower(val))
LowerTrim(val) ==
    CASE val \in {"TRUE", "True", " true "} -> "true"
      [] val \in {"FALSE", "False", " false "} -> "false"
      [] val \in {"No", "NO"} -> "no"
      [] val \in {"OFF", "Off"} -> "off"
      [] val \in {"None", "NONE"} -> "none"
      [] val \in {"NULL", "Null"} -> "null"
      [] val \in {"NIL", "Nil"} -> "nil"
      [] val = " " -> ""
      [] OTHER -> val

\* os.Getenv on the host ("" when unset).
Getenv(name) ==
    CASE name = "DEBUG" -> "true"
      [] name = "TPL"   -> "{{ who }}"
      [] name = "CHAIN" -> "${DEBUG}"
      [] OTHER -> ""

GOARCH == "amd64"

-----------------------------------------------------------------------------
(* Variables                                                               *)

\* Variables.resolveEnvVars on a string given as the sequence of its parts
RECURSIVE resolveEnvVars(_)
resolveEnvVars(input) ==
    IF input = <<>> THEN <<>>
    ELSE LET part == Head(input)
             out  == IF part \in DOMAIN EnvPattern /\ Getenv(EnvPattern[part]) # ""
                     THEN Getenv(EnvPattern[part])
                     ELSE part
         IN  <<out>> \o resolveEnvVars(Tail(input))

\* NewVariables + initBuiltins on host p, then SetUserVars
initBuiltins(p) ==
    [platform |-> p, arch |-> GOARCH, os_family |-> p, path_sep |-> "/"]

SetUserVars(v, uservars) ==
    [v EXCEPT !.userVars =
        [k \in DOMAIN uservars |-> resolveEnvVars(<<uservars[k]>>)[1]] @@ v.userVars]

NewVariables(p) ==
    [userVars |-> <<>>, taskResults |-> <<>>, builtins |-> initBuiltins(p)]

\* A SetTaskResult that keeps the result already stored under the name
SetTaskResultOnce(v, name, result) ==
    [v EXCEPT !.taskResults = v.taskResults @@ (name :> result)]

\* A SetTaskResult that stores completed results only
SetTaskResultCompleted(v, name, result) ==
    IF result.Status = TaskStatusCompleted
    THEN [v EXCEPT !.taskResults = (name :> result) @@ v.taskResults]
    ELSE v

\* Variables.SetTaskResult
SetTaskResult(v, name, result) ==
    [v EXCEPT !.taskResults = (name :> result) @@ v.taskResults]

\* Variables.Get: user variables first, then built-ins
Get(v, name) ==
    IF name \in DOMAIN v.userVars THEN [val |-> v.userVars[name], ok |-> TRUE]
    ELSE IF name \in DOMAIN v.builtins THEN [val |-> v.builtins[name], ok |-> TRUE]
    ELSE [val |-> "", ok |-> FALSE]

\* Variables.getTaskResultProperty
getTaskResultProperty(result, property) ==
    CASE property = "stdout"    -> [val |-> result.Stdout, ok |-> TRUE]
      [] property = "stderr"    -> [val |-> result.Stderr, ok |-> TRUE]
      [] property = "exit_code" -> [val |-> Itoa(result.ExitCode), ok |-> TRUE]
      [] property = "status"    -> [val |-> result.Status, ok |-> TRUE]
      [] property = "changed"   -> [val |-> FormatBool(result.Changed), ok |-> TRUE]
      [] OTHER -> [val |-> "", ok |-> FALSE]

\* The replacement function of Substitute for one "{{ name }}" match: the
\* text put in its place and whether it set lastErr.
substituteMatch(v, match) ==
    LET varName == VarPattern[match]
    IN  IF varName \in DOMAIN EnvPrefixed THEN
            IF Getenv(EnvPrefixed[varName]) # ""
            THEN [val |-> Getenv(EnvPrefixed[varName]), err |-> FALSE]
            ELSE [val |-> match, err |-> FALSE]
        ELSE IF varName \in DOMAIN Dotted /\ Dotted[varName][1] \in DOMAIN v.taskResults THEN
            LET pr == getTaskResultProperty(v.taskResults[Dotted[varName][1]],
                                            Dotted[varName][2])
            IN  IF pr.ok THEN [val |-> pr.val, err |-> FALSE]
                ELSE [val |-> match, err |-> TRUE]
        ELSE IF Get(v, varName).ok THEN [val |-> Get(v, varName).val, err |-> FALSE]
        ELSE [val |-> match, err |-> TRUE]

\* Variables.Substitute on a string given as the sequence of its parts:
\* the environment pass, then one pass over the "{{ name }}" matches.
Substitute(v, input) ==
    LET afterEnv == resolveEnvVars(input)
        m(i) == IF afterEnv[i] \in DOMAIN VarPattern
                THEN substituteMatch(v, afterEnv[i])
                ELSE [val |-> afterEnv[i], err |-> FALSE]
    IN  [val |-> [i \in 1..Len(afterEnv) |-> m(i).val],
         err |-> \E i \in 1..Len(afterEnv) : m(i).err]

\* Variables.SubstituteMap on a map of string values: nil and an error when
\* any value fails.
SubstituteMap(v, params) ==
    IF \E k \in DOMAIN params : Substitute(v, params[k]).err
    THEN [val |-> <<>>, err |-> TRUE]
    ELSE [val |-> [k \in DOMAIN params |-> Substitute(v, params[k]).val],
          err |-> FALSE]

\* The values of a params map (map[string]interface{} as yaml.v3 decodes
\* it): a string, given as the sequence of its parts, a nested mapping, a
\* sequence, or a scalar of another type
String(parts) == [kind |-> "string", val |-> parts]

Mapping(m) == [kind |-> "map", val |-> m]

Slice(items) == [kind |-> "slice", val |-> items]

Scalar(n) == [kind |-> "int", val |-> n]

RECURSIVE SubstituteParams(_, _)

RECURSIVE substituteSlice(_, _)

\* Variables.SubstituteMap on params of any shape: strings are substituted,
\* mappings and sequences are descended into, other values are copied; nil
\* and the error when a value fails.
SubstituteParams(v, params) ==
    LET sub(value) ==
            CASE value.kind = "string" ->
                    LET r == Substitute(v, value.val)
                    IN  [val |-> String(r.val), err |-> r.err]
              [] value.kind = "map" ->
                    LET r == SubstituteParams(v, value.val)
                    IN  [val |-> Mapping(r.val), err |-> r.err]
              [] value.kind = "slice" ->
                    LET r == substituteSlice(v, value.val)
                    IN  [val |-> Slice(r.val), err |-> r.err]
              [] OTHER -> [val |-> value, err |-> FALSE]
    IN  IF \E k \in DOMAIN params : sub(params[k]).err
        THEN [val |-> <<>>, err |-> TRUE]
        ELSE [val |-> [k \in DOMAIN params |-> sub(params[k]).val], err |-> FALSE]

\* Variables.substituteSlice: the strings and the mappings of the sequence
\* are substituted, every other item (a sequence too) is copied as it is.
substituteSlice(v, items) ==
    LET sub(item) ==
            CASE item.kind = "string" ->
                    LET r == Substitute(v, item.val)
                    IN  [val |-> String(r.val), err |-> r.err]
              [] item.kind = "map" ->
                    LET r == SubstituteParams(v, item.val)
                    IN  [val |-> Mapping(r.val), err |-> r.err]
              [] OTHER -> [val |-> item, err |-> FALSE]
    IN  IF \E i \in 1..Len(items) : sub(items[i]).err
        THEN [val |-> <<>>, err |-> TRUE]
        ELSE [val |-> [i \in 1..Len(items) |-> sub(items[i]).val], err |-> FALSE]

-----------------------------------------------------------------------------
(* Condition                                                               *)

\* runtime.GOOS
GOOS == platform

\* strings.Contains(l, r) on the values of the vocabulary
ProperSubstrings ==
    {<<"installed", "install">>, <<"not installed", "installed">>,
     <<"completed", "complete">>}

StrContains(l, r) == r = "" \/ r = l \/ <<l, r>> \in ProperSubstrings

\* strings.Count(s, ch) for a token ch
RECURSIVE Count(_, _)
Count(s, ch) ==
    IF s = <<>> THEN 0
    ELSE (IF Head(s) = ch THEN 1 ELSE 0) + Count(Tail(s), ch)

\* Token i of expr is an occurrence of the text " op " (op with a blank on
\* each side) that strings.Split / strings.Contains finds: a blank is
\* written between two tokens unless the left one is "(" or the right one
\* is ")", and an occurrence does not reuse the blank of the one before.
RECURSIVE IsSep(_, _, _)
IsSep(expr, op, i) ==
    /\ 1 < i /\ i < Len(expr)
    /\ expr[i] = op
    /\ expr[i - 1] # "(" /\ expr[i + 1] # ")"
    /\ ~IsSep(expr, op, i - 1)

\* strings.Split(expr, " op ")
RECURSIVE SplitFrom(_, _, _, _)
SplitFrom(expr, op, from, i) ==
    IF i > Len(expr) THEN <<SubSeq(expr, from, Len(expr))>>
    ELSE IF IsSep(expr, op, i)
         THEN <<SubSeq(expr, from, i - 1)>> \o SplitFrom(expr, op, i + 1, i + 1)
         ELSE SplitFrom(expr, op, from, i + 1)

Split(expr, op) == SplitFrom(expr, op, 1, 1)

\* The loop of splitOnOperator over tokens[i..]: st holds parts, current
\* and depth.
RECURSIVE splitLoop(_, _, _, _)
splitLoop(tokens, op, i, st) ==
    IF i > Len(tokens) THEN st
    ELSE LET openCount  == Count(st.current, "(")
             closeCount == Count(st.current, ")")
         IN  IF openCount > closeCount
             THEN splitLoop(tokens, op, i + 1,
                     [parts   |-> st.parts,
                      current |-> st.current \o <<op>> \o tokens[i],
                      depth   |-> openCount - closeCount])
             ELSE splitLoop(tokens, op, i + 1,
                     [parts   |-> Append(st.parts, st.current),
                      current |-> tokens[i],
                      depth   |-> 0])

\* splitOnOperator after its loop: the last part is added, and nil (<<>>)
\* is returned when there is at most one part and depth is 0.
splitResult(parts, depth) ==
    IF Len(parts) <= 1 /\ depth = 0 THEN <<>> ELSE parts

splitFlush(st) ==
    splitResult(IF Len(st.current) > 0 THEN Append(st.parts, st.current)
                ELSE st.parts,
                st.depth)

\* splitOnOperator from the tokens strings.Split has produced
splitTokens(tokens, op) ==
    splitFlush(splitLoop(tokens, op, 2,
                         [parts |-> <<>>, current |-> tokens[1], depth |-> 0]))

\* splitOnOperator: the parts, or <<>> for nil
splitOnOperator(expr, op) == splitTokens(Split(expr, op), op)

\* isTruthy
isTruthy(val) ==
    LowerTrim(val) \notin {"", "false", "0", "no", "off", "null", "nil", "none"}

\* Condition.resolveValue of a one-token reference: the value and whether
\* an error is returned.
resolveValue(v, ref) ==
    IF ref \in DOMAIN Quoted THEN [val |-> Quoted[ref], err |-> FALSE]
    ELSE IF ref \in DOMAIN Numeric THEN [val |-> ref, err |-> FALSE]
    ELSE IF ref = "platform" THEN [val |-> GOOS, err |-> FALSE]
    ELSE IF ref = "arch" THEN [val |-> GOARCH, err |-> FALSE]
    ELSE IF ref \in DOMAIN EnvPrefixed THEN
        IF Get(v, ref).ok THEN [val |-> Get(v, ref).val, err |-> FALSE]
        ELSE [val |-> Getenv(EnvPrefixed[ref]), err |-> FALSE]
    ELSE IF ref \in DOMAIN Dotted /\ Dotted[ref][1] \in DOMAIN v.taskResults THEN
        LET result   == v.taskResults[Dotted[ref][1]]
            property == Dotted[ref][2]
        IN  CASE property = "stdout"    -> [val |-> result.Stdout, err |-> FALSE]
              [] property = "stderr"    -> [val |-> result.Stderr, err |-> FALSE]
              [] property = "exit_code" -> [val |-> Itoa(result.ExitCode), err |-> FALSE]
              [] property = "status"    -> [val |-> result.Status, err |-> FALSE]
              [] property = "changed"   -> [val |-> FormatBool(result.Changed), err |-> FALSE]
              [] OTHER -> [val |-> "", err |-> TRUE]
    ELSE IF Get(v, ref).ok THEN [val |-> Get(v, ref).val, err |-> FALSE]
    ELSE [val |-> "", err |-> FALSE]

\* resolveValue of an operand of a comparison.  An operand of several
\* tokens is text with blanks in it: it is no literal and no known name,
\* so it resolves to "", unless it starts with the name of a registered
\* result, when the rest is an unknown property.
resolveOperand(v, operand) ==
    IF Len(operand) = 1 THEN resolveValue(v, operand[1])
    ELSE IF operand = <<>> THEN [val |-> "", err |-> FALSE]
    ELSE IF /\ operand[1] \in DOMAIN Dotted
            /\ operand[1] \notin DOMAIN EnvPrefixed
            /\ Dotted[operand[1]][1] \in DOMAIN v.taskResults
         THEN [val |-> "", err |-> TRUE]
    ELSE [val |-> "", err |-> FALSE]

\* The first place where the one- or two-token operator op occurs with a
\* blank on each side (0 when strings.Contains is false).
FirstOp(expr, op) ==
    LET n  == Len(op)
        at == {i \in 2..(Len(expr) - n) :
                 /\ SubSeq(expr, i, i + n - 1) = op
                 /\ expr[i - 1] # "(" /\ expr[i + n] # ")"}
    IN  IF at = {} THEN 0 ELSE CHOOSE i \in at : \A j \in at : i <= j

\* The operators of evaluateComparison in the order it tries them.
ComparisonOps ==
    <<<<"not", "contains">>, <<"contains">>, <<"!=">>, <<"==">>,
      <<">=">>, <<"<=">>, <<">">>, <<"<">>>>

\* The result of comparing the resolved operands l and r with op.
compare(op, l, r) ==
    CASE op = <<"not", "contains">> -> [val |-> ~StrContains(l, r), err |-> FALSE]
      [] op = <<"contains">>        -> [val |-> StrContains(l, r), err |-> FALSE]
      [] op = <<"!=">>              -> [val |-> l # r, err |-> FALSE]
      [] op = <<"==">>              -> [val |-> l = r, err |-> FALSE]
      [] OTHER ->
           IF l \notin DOMAIN Numeric \/ r \notin DOMAIN Numeric
           THEN [val |-> FALSE, err |-> TRUE]
           ELSE [val |-> CASE op = <<">=">> -> Numeric[l] >= Numeric[r]
                           [] op = <<"<=">> -> Numeric[l] <= Numeric[r]
                           [] op = <<">">>  -> Numeric[l] > Numeric[r]
                           [] OTHER         -> Numeric[l] < Numeric[r],
                 err |-> FALSE]

\* evaluateComparison with no operator in the expression: the truthiness
\* of the one value
truthOf(one) ==
    IF one.err THEN [val |-> FALSE, err |-> TRUE]
    ELSE [val |-> isTruthy(one.val), err |-> FALSE]

\* evaluateComparison once both operands of op are resolved
compareOperands(op, left, right) ==
    IF left.err \/ right.err THEN [val |-> FALSE, err |-> TRUE]
    ELSE compare(op, left.val, right.val)

\* evaluateComparison for the operator op found at position at
\* (strings.SplitN(expression, op, 2))
compareAt(v, expr, op, at) ==
    compareOperands(op,
                    resolveOperand(v, SubSeq(expr, 1, at - 1)),
                    resolveOperand(v, SubSeq(expr, at + Len(op), Len(expr))))

\* evaluateComparison for the first operator, in the order tried, that the
\* expression contains
compareWith(v, expr, op) == compareAt(v, expr, op, FirstOp(expr, op))

\* evaluateComparison, found being the operators the expression contains
compareFound(v, expr, found) ==
    IF found = {} THEN truthOf(resolveOperand(v, expr))
    ELSE compareWith(v, expr,
                     ComparisonOps[CHOOSE k \in found : \A j \in found : k <= j])

\* Condition.evaluateComparison
evaluateComparison(v, expr) ==
    compareFound(v, expr,
                 {k \in 1..Len(ComparisonOps) : FirstOp(expr, ComparisonOps[k]) # 0})

\* The short-circuit loop of Evaluate over the parts of an `and`, rs being
\* what Evaluate returns for each part: the first part that fails or is
\* false ends the loop.
evalAnd(rs) ==
    IF \A i \in 1..Len(rs) : ~rs[i].err /\ rs[i].val
    THEN [val |-> TRUE, err |-> FALSE]
    ELSE [val |-> FALSE,
          err |-> rs[CHOOSE i \in 1..Len(rs) :
                        /\ rs[i].err \/ ~rs[i].val
                        /\ \A j \in 1..(i - 1) : ~rs[j].err /\ rs[j].val].err]

\* The same for an `or`: the first part that fails or is true ends the loop.
evalOr(rs) ==
    IF \A i \in 1..Len(rs) : ~rs[i].err /\ ~rs[i].val
    THEN [val |-> FALSE, err |-> FALSE]
    ELSE IF rs[CHOOSE i \in 1..Len(rs) :
                  /\ rs[i].err \/ rs[i].val
                  /\ \A j \in 1..(i - 1) : ~rs[j].err /\ ~rs[j].val].err
         THEN [val |-> FALSE, err |-> TRUE]
         ELSE [val |-> TRUE, err |-> FALSE]

\* The `not` branch of Evaluate, r being what Evaluate returns for the rest
evalNot(r) ==
    IF r.err THEN [val |-> FALSE, err |-> TRUE] ELSE [val |-> ~r.val, err |-> FALSE]

\* The branch of Evaluate an expression takes, in the order the code tries
\* them (andParts and orParts are what splitOnOperator returns for " and "
\* and " or "), with the sub-expressions that branch evaluates.
Branch(expression, andParts, orParts) ==
    CASE expression = <<>> \/ expression = <<"true">> ->
            [kind |-> "true", subs |-> <<>>]
      [] expression = <<"false">> ->
            [kind |-> "false", subs |-> <<>>]
      [] Len(andParts) > 1 ->
            [kind |-> "and", subs |-> andParts]
      [] Len(orParts) > 1 ->
            [kind |-> "or", subs |-> orParts]
      [] expression[1] = "(" /\ expression[Len(expression)] = ")"
            /\ Len(expression) > 1 ->
            [kind |-> "paren", subs |-> <<SubSeq(expression, 2, Len(expression) - 1)>>]
      [] expression[1] = "not" /\ Len(expression) > 1 ->
            [kind |-> "not", subs |-> <<Tail(expression)>>]
      [] OTHER ->
            [kind |-> "comparison", subs |-> <<>>]

\* What the branch `kind` of Evaluate returns, rs being what Evaluate
\* returns for its sub-expressions
Combine(v, expression, kind, rs) ==
    CASE kind = "true"  -> [val |-> TRUE, err |-> FALSE]
      [] kind = "false" -> [val |-> FALSE, err |-> FALSE]
      [] kind = "and"   -> evalAnd(rs)
      [] kind = "or"    -> evalOr(rs)
      [] kind = "paren" -> rs[1]
      [] kind = "not"   -> evalNot(rs[1])
      [] OTHER          -> evaluateComparison(v, expression)

\* Condition.Evaluate
RECURSIVE Evaluate(_, _)
EvaluateBranch(v, expression, b) ==
    Combine(v, expression, b.kind,
            [i \in 1..Len(b.subs) |-> Evaluate(v, b.subs[i])])

Evaluate(v, expression) ==
    EvaluateBranch(v, expression,
        Branch(expression,
               IF expression = <<>> THEN <<>> ELSE splitOnOperator(expression, "and"),
               IF expression = <<>> THEN <<>> ELSE splitOnOperator(expression, "or")))

\* The tokens that are operators for ValidateCondition's pattern
\* (==|!=|>=|<=|>|<| contains | not contains | and | or |^not ).
HasOperator(expr) ==
    \/ \E i \in 1..Len(expr) : expr[i] \in {"==", "!=", ">=", "<=", ">", "<"}
    \/ \E i \in 2..(Len(expr) - 1) : expr[i] \in {"contains", "and", "or"}
    \/ (Len(expr) > 1 /\ expr[1] = "not")

\* isValidIdentifier for text of one token: a quoted literal, a number or
\* a name of letters, digits, "_" and "."
isValidIdentifier(expr) ==
    /\ Len(expr) = 1
    /\ expr[1] \notin {"(", ")", "==", "!=", ">=", "<=", ">", "<"}

\* ValidateCondition: TRUE when it returns no error
ValidateCondition(expr) ==
    \/ expr = <<>> \/ expr = <<"true">> \/ expr = <<"false">>
    \/ /\ Count(expr, "(") = Count(expr, ")")
       /\ HasOperator(expr) \/ isValidIdentifier(expr)

-----------------------------------------------------------------------------
(* Executor                                                                *)

\* Executor.handlers after RegisterAllHandlers: the registered action types
handlers ==
    {ActionCommand, ActionFile, ActionLineinfile, ActionEnv, ActionService,
     ActionRegistry, ActionSysctl, ActionDefaults}

\* Handlers that all claim to support every platform
SupportsAll(action) == {"all"}

\* ActionHandler.Supports of the registered handlers
Supports(action) ==
    CASE action = ActionService  -> {"windows", "linux", "darwin"}
      [] action = ActionRegistry -> {"windows"}
      [] action = ActionSysctl   -> {"linux"}
      [] action = ActionDefaults -> {"darwin"}
      [] OTHER -> {"all"}

\* What a call of ActionHandler.Execute can return: a result with no
\* error (changed or not), or an error with the output gathered so far.
Outcomes ==
    {[ok |-> TRUE,  Changed |-> TRUE,  Stdout |-> "installed", Stderr |-> "",
      ExitCode |-> 0, err |-> ""],
     [ok |-> TRUE,  Changed |-> FALSE, Stdout |-> "", Stderr |-> "",
      ExitCode |-> 0, err |-> ""],
     [ok |-> FALSE, Changed |-> FALSE, Stdout |-> "", Stderr |-> "boom",
      ExitCode |-> 1, err |-> "command failed"]}

ZeroRecord ==
    [ExpectedHash |-> <<>>, CalculatedHash |-> <<>>, HashVerified |-> FALSE,
     SignatureVerified |-> FALSE, ApprovalStatus |-> "", ApprovalVerified |-> FALSE,
     AllChecksPass |-> FALSE, FailureReason |-> ""]

\* The ExecutionReport Execute / DryRun starts from
NewReport(status) ==
    [PlaybookName |-> "", Verification |-> ZeroRecord, Status |-> status,
     TasksTotal |-> 0, TasksCompleted |-> 0, TasksFailed |-> 0, TasksSkipped |-> 0,
     TaskResults |-> <<>>, ErrorMessage |-> <<>>, RebootRequired |-> FALSE]

\* The TaskResult executeTask starts from
NewResult(task) ==
    [TaskName |-> task.Name, Status |-> TaskStatusPending, Changed |-> FALSE,
     Stdout |-> "", Stderr |-> "", ExitCode |-> 0, Error |-> <<>>, Message |-> ""]

\* An entry of the trace: what was done (ev), for which task (origin is
\* "task", "handler" or "rollback", idx the position of the task or handler
\* being run), with which status or substituted params.
Event(ev, origin, i, name, status, params) ==
    [ev |-> ev, origin |-> origin, idx |-> i, name |-> name, status |-> status,
     params |-> params]

\* A platform filter that is applied only to actions with a handler
PlatformFilteredIfHandled(task) ==
    task.Platform # "" /\ task.Platform # platform /\ task.Action \in handlers

\* Lines 246-247: the task names a platform other than the host's
PlatformFiltered(task) == task.Platform # "" /\ task.Platform # platform

\* A report that puts the newest result first
AppendResultFirst(rep, result) == [rep EXCEPT !.TaskResults = <<result>> \o @]

\* Line 173 (and 212): the result is appended to report.TaskResults
AppendResult(rep, result) == [rep EXCEPT !.TaskResults = Append(@, result)]

\* A retry loop that makes one attempt more than line 312 allows
maxAttemptsOneMore(task) == task.Retries + 2

\* Line 312: the number of attempts the retry loop makes
maxAttempts(task) == task.Retries + 1

\* Line 344: a failed attempt is followed by a wait
DelayDue(attempt, task) == attempt < maxAttempts(task) /\ task.RetryDelay > 0

\* An activation of executeTask that has reached the retry loop
Frame(task, origin, i, result, params) ==
    [task |-> task, origin |-> origin, idx |-> i, result |-> result,
     params |-> params, attempt |-> 1]

\* A condition check that never finds the condition false
ConditionFalseNever(task, cond) == FALSE

\* Lines 256-273: the `when` clause raised an error / evaluated to false
ConditionFailed(task, cond) == task.When # <<>> /\ cond.err

ConditionFalse(task, cond) == task.When # <<>> /\ ~cond.val

\* executeTask up to the retry loop (progress callback, platform filter,
\* condition, handler lookup, platform support, substitution), cond being
\* what Evaluate returns for `when` and sub what SubstituteMap returns for
\* the params: either the result it returns early, or the activation that
\* goes on to the retry loop.
Prelude(task, origin, i, cond, sub) ==
    LET ev(e)    == Event(e, origin, i, task.Name, "", <<>>)
        r0       == NewResult(task)
        start    == <<ev("dispatch"),
                      Event("progress", origin, i, task.Name, TaskStatusRunning, <<>>)>>
        supported == \E pl \in Supports(task.Action) : pl = platform \/ pl = "all"
        early(res, evs) == [done |-> TRUE, result |-> res, events |-> evs,
                            frame |-> Frame(task, origin, i, res, <<>>)]
        evCond   == IF task.When # <<>> THEN <<ev("evaluate")>> ELSE <<>>
    IN  IF PlatformFiltered(task) THEN
            early([r0 EXCEPT !.Status = TaskStatusSkipped,
                             !.Message = "Skipped: platform filter"], start)
        ELSE IF ConditionFailed(task, cond) THEN
            early([r0 EXCEPT !.Status = TaskStatusFailed,
                             !.Error = <<"condition evaluation failed">>],
                  start \o evCond)
        ELSE IF ConditionFalse(task, cond) THEN
            early([r0 EXCEPT !.Status = TaskStatusSkipped,
                             !.Message = "Skipped: condition evaluated to false"],
                  start \o evCond)
        ELSE IF task.Action \notin handlers THEN
            early([r0 EXCEPT !.Status = TaskStatusFailed,
                             !.Error = <<"no handler registered">>],
                  start \o evCond \o <<ev("lookup")>>)
        ELSE IF ~supported THEN
            early([r0 EXCEPT !.Status = TaskStatusFailed,
                             !.Error = <<"action does not support platform">>],
                  start \o evCond \o <<ev("lookup")>>)
        ELSE IF sub.err THEN
            early([r0 EXCEPT !.Status = TaskStatusFailed,
                             !.Error = <<"variable substitution failed">>],
                  start \o evCond \o <<ev("lookup"), ev("substitute")>>)
        ELSE [done |-> FALSE, result |-> r0,
              events |-> start \o evCond \o <<ev("lookup"), ev("substitute")>>,
              frame |-> Frame(task, origin, i, r0, <<sub.val>>)]

\* Lines 369-376 in the caller: the failing result annotated with the
\* outcome of its rollback task.
Annotate(result, rollbackResult) ==
    IF rollbackResult.Status = TaskStatusFailed
    THEN [result EXCEPT !.Error = result.Error \o <<"rollback also failed">>
                                   \o rollbackResult.Error]
    ELSE [result EXCEPT !.Message = "Rollback executed successfully"]

\* The innermost activation of stk returns res: every caller is a task
\* waiting for its rollback, which annotates its own result, reports
\* `failed` to the progress callback and returns in turn.  Yields the
\* result of the outermost activation and the trace.
RECURSIVE ReturnFrom(_, _, _)
ReturnFrom(stk, res, tr) ==
    LET top == stk[Len(stk)]
        tr1 == Append(tr, Event("return", top.origin, top.idx, top.task.Name,
                                res.Status, <<>>))
    IN  IF Len(stk) = 1 THEN [running |-> FALSE, stack |-> <<>>, result |-> res,
                              trace |-> tr1]
        ELSE LET parent == stk[Len(stk) - 1]
                 pres   == Annotate(parent.result, res)
                 tr2    == Append(tr1, Event("progress", parent.origin, parent.idx,
                                             parent.task.Name, TaskStatusFailed, <<>>))
             IN  ReturnFrom(SubSeq(stk, 1, Len(stk) - 1), pres, tr2)

\* Lines 358-366: the result once the retry loop is over without success
Failed(result, lastErr) ==
    [result EXCEPT !.Status = TaskStatusFailed,
                   !.Error = IF lastErr # "" THEN <<lastErr>>
                             ELSE <<"task failed after all retries">>]

\* executeTask(task) is called by the activations of stk (none for a call
\* from Execute).  Enter: with pre what Prelude returned, it returns early,
\* or stops before its first attempt, or (maxAttempts < 1) falls through
\* the retry loop at once.
\* Exhausted: lines 368-382, the innermost activation has left the retry
\* loop without success and its result is `failed`.
RECURSIVE Call(_, _, _, _, _, _), Exhausted(_, _, _)
Enter(stk, task, v, tr, pre) ==
    IF pre.done THEN ReturnFrom(Append(stk, pre.frame), pre.result, tr \o pre.events)
    ELSE IF 1 > maxAttempts(task) THEN
        Exhausted(Append(stk, [pre.frame EXCEPT !.result = Failed(pre.result, "")]),
                  v, tr \o pre.events)
    ELSE [running |-> TRUE, stack |-> Append(stk, pre.frame), result |-> pre.result,
          trace |-> tr \o pre.events]

Call(stk, task, v, origin, i, tr) ==
    Enter(stk, task, v, tr,
          Prelude(task, origin, i, Evaluate(v, task.When),
                  SubstituteMap(v, task.Params)))

Exhausted(stk, v, tr) ==
    LET top == stk[Len(stk)]
    IN  IF top.task.Rollback # <<>>
        THEN Call(stk, top.task.Rollback[1], v, "rollback", top.idx, tr)
        ELSE ReturnFrom(stk, top.result,
                        Append(tr, Event("progress", top.origin, top.idx,
                                         top.task.Name, TaskStatusFailed, <<>>)))

\* A notification that does not look at `changed`
NotifiedUnchanged(task, result) == {task.Notify[k] : k \in 1..Len(task.Notify)}

\* The names a completed task marks: every entry of notify when changed
Notified(task, result) ==
    IF result.Changed THEN {task.Notify[k] : k \in 1..Len(task.Notify)} ELSE {}

\* Line 188: the failure of a task without ignore_errors ends Execute
StopsOnFailure(pb) == pb.OnError = <<>> \/ pb.OnError[1].Strategy = "stop"

\* Lines 173-204: Execute takes the result of task idx back from
\* executeTask.
AfterTask(result, tr) ==
    LET pb   == playbook[1]
        task == pb.Tasks[idx]
        rep1 == AppendResult(report, result)
        rep2 == CASE result.Status = TaskStatusCompleted ->
                        [rep1 EXCEPT !.TasksCompleted = @ + 1]
                  [] result.Status = TaskStatusFailed ->
                        [rep1 EXCEPT !.TasksFailed = @ + 1]
                  [] result.Status = TaskStatusSkipped ->
                        [rep1 EXCEPT !.TasksSkipped = @ + 1]
                  [] OTHER -> rep1
        abort == /\ result.Status = TaskStatusFailed
                 /\ ~task.IgnoreErrors
                 /\ StopsOnFailure(pb)
    IN  /\ trace' = tr
        /\ stack' = <<>>
        /\ notifiedHandlers' =
              IF result.Status = TaskStatusCompleted
              THEN notifiedHandlers \cup Notified(task, result)
              ELSE notifiedHandlers
        /\ IF abort
           THEN /\ report' = [rep2 EXCEPT !.Status = "failed",
                                          !.ErrorMessage = result.Error]
                /\ retErr' = "task failed"
                /\ pc' = "done"
                /\ UNCHANGED <<vars, idx, hidx>>
           ELSE /\ report' = rep2
                /\ vars' = IF task.Register # ""
                           THEN SetTaskResult(vars, task.Register, result)
                           ELSE vars
                /\ idx' = idx + 1
                /\ pc' = IF idx + 1 > Len(pb.Tasks) THEN "handlers" ELSE "tasks"
                /\ UNCHANGED <<retErr, hidx>>
        /\ UNCHANGED <<others, platform, orig, sp, mode, playbook, ctxDone>>

\* A handler phase that a failing handler ends
AfterHandlerStopping(j, result, tr) ==
    LET h == playbook[1].Handlers[j]
        abort == result.Status = TaskStatusFailed /\ ~h.IgnoreErrors
    IN  /\ trace' = tr
        /\ stack' = <<>>
        /\ report' = [AppendResult(report, result) EXCEPT
                        !.TasksFailed = IF abort THEN @ + 1 ELSE @,
                        !.Status = IF abort THEN "failed" ELSE @]
        /\ hidx' = j + 1
        /\ retErr' = IF abort THEN "task failed" ELSE retErr
        /\ pc' = IF abort THEN "done" ELSE "handlers"
        /\ UNCHANGED <<others, platform, orig, sp, mode, playbook, ctxDone, vars,
                       idx, notifiedHandlers>>

\* Lines 212-216: Execute takes the result of handler j back.
AfterHandler(j, result, tr) ==
    LET h == playbook[1].Handlers[j]
    IN  /\ trace' = tr
        /\ stack' = <<>>
        /\ report' = [AppendResult(report, result) EXCEPT
                        !.TasksFailed = IF result.Status = TaskStatusFailed
                                           /\ ~h.IgnoreErrors
                                        THEN @ + 1 ELSE @]
        /\ hidx' = j + 1
        /\ pc' = "handlers"
        /\ UNCHANGED <<others, platform, orig, sp, mode, playbook, ctxDone, retErr, vars,
                       idx, notifiedHandlers>>

\* Execute goes on after a step o of executeTask for task / handler i:
\* executeTask is still running, or it has returned.
Resume(o, origin, i) ==
    IF o.running
    THEN /\ stack' = o.stack
         /\ trace' = o.trace
         /\ pc' = "attempt"
         /\ hidx' = IF origin = "handler" THEN i ELSE hidx
         /\ UNCHANGED <<others, platform, orig, sp, mode, playbook, ctxDone, retErr, vars,
                        idx, notifiedHandlers, report>>
    ELSE IF origin = "task" THEN AfterTask(o.result, o.trace)
    ELSE AfterHandler(i, o.result, o.trace)

\* A return that hands back a report without the verification record
ReturnBare(rep, status, msg, err, tr) ==
    /\ report' = [rep EXCEPT !.Status = status, !.ErrorMessage = msg,
                             !.Verification = ZeroRecord]
    /\ retErr' = err
    /\ pc' = "done"
    /\ trace' = tr
    /\ UNCHANGED <<others, platform, orig, sp, playbook, ctxDone, vars, idx, hidx, stack,
                   notifiedHandlers>>

\* A rejection or failure before the task loop: Execute returns
Return(rep, status, msg, err, tr) ==
    /\ report' = [rep EXCEPT !.Status = status, !.ErrorMessage = msg]
    /\ retErr' = err
    /\ pc' = "done"
    /\ trace' = tr
    /\ UNCHANGED <<others, platform, orig, sp, playbook, ctxDone, vars, idx, hidx, stack,
                   notifiedHandlers>>

ParseEvent == Event("parse", "", 0, "", "", <<>>)

\* Executor.Execute, lines 92-160: verification, parsing, platform check,
\* set-up of the task loop; vr is what Verify returns and pr what Parse
\* returns.
ExecuteWith(vr, pr) ==
    LET rep0 == [NewReport("pending") EXCEPT !.Verification = vr.record]
        tr   == Append(trace, ParseEvent)
    IN  IF vr.err # "nil" THEN
            Return(rep0, "rejected", <<"SECURITY", vr.err>>, vr.err, trace)
        ELSE IF pr.err # "nil" THEN
            Return(rep0, "failed", <<"Parse error", pr.err>>, pr.err, tr)
        ELSE IF /\ Len(pr.pb[1].Platforms) > 0
                /\ ~\E k \in 1..Len(pr.pb[1].Platforms) :
                       pr.pb[1].Platforms[k] = platform THEN
            Return([rep0 EXCEPT !.PlaybookName = pr.pb[1].Name], "rejected",
                   <<"Platform not supported by this playbook">>,
                   "ErrPlatformMismatch", tr)
        ELSE
            /\ report' = [rep0 EXCEPT !.PlaybookName = pr.pb[1].Name,
                                      !.Status = "running",
                                      !.TasksTotal = Len(pr.pb[1].Tasks)]
            /\ playbook' = pr.pb
            /\ vars' = SetUserVars(NewVariables(platform), pr.pb[1].Variables)
            /\ notifiedHandlers' = {}
            /\ idx' = 1
            /\ pc' = "tasks"
            /\ trace' = tr
            /\ UNCHANGED <<others, platform, orig, sp, ctxDone, retErr, hidx, stack>>

ExecuteBegin ==
    /\ pc = "idle"
    /\ mode' = "execute"
    /\ ExecuteWith(Verify(sp), Parse(platform, sp.Content))

\* Lines 162-172: the head of the task loop, and executeTask for task idx
\* up to its first attempt.
TaskLoop ==
    /\ pc = "tasks"
    /\ IF ctxDone
       THEN /\ report' = [report EXCEPT !.Status = "cancelled"]
            /\ retErr' = "context canceled"
            /\ pc' = "done"
            /\ UNCHANGED <<others, platform, orig, sp, mode, playbook, ctxDone, vars, idx,
                           hidx, stack, notifiedHandlers, trace>>
       ELSE Resume(Call(<<>>, playbook[1].Tasks[idx], vars, "task", idx, trace),
                   "task", idx)

\* Lines 315-356: one attempt of the innermost activation; handler.Execute
\* returns outcome o.
Attempt(o) ==
    /\ pc = "attempt"
    /\ LET top  == stack[Len(stack)]
           task == top.task
           tr   == Append(trace, Event("execute", top.origin, top.idx, task.Name,
                                       "", top.params))
           ok   == [top.result EXCEPT !.Status = TaskStatusCompleted,
                                      !.Changed = o.Changed, !.Stdout = o.Stdout,
                                      !.Stderr = o.Stderr, !.ExitCode = o.ExitCode]
           bad  == [top.result EXCEPT !.Status = TaskStatusRunning,
                                      !.Stdout = o.Stdout, !.Stderr = o.Stderr,
                                      !.ExitCode = o.ExitCode]
           rest == SubSeq(stack, 1, Len(stack) - 1)
           wait == Event("delay", top.origin, top.idx, task.Name, "", <<>>)
       IN  IF o.ok THEN
               Resume(ReturnFrom(stack, ok,
                         Append(tr, Event("progress", top.origin, top.idx, task.Name,
                                          TaskStatusCompleted, <<>>))),
                      stack[1].origin, stack[1].idx)
           ELSE IF DelayDue(top.attempt, task) THEN
               /\ stack' = Append(rest, [top EXCEPT !.result = bad])
               /\ pc' = "delay"
               /\ trace' = Append(tr, wait)
               /\ UNCHANGED <<others, platform, orig, sp, mode, playbook, ctxDone, retErr,
                              vars, idx, hidx, notifiedHandlers, report>>
           ELSE IF top.attempt < maxAttempts(task) THEN
               /\ stack' = Append(rest, [top EXCEPT !.result = bad,
                                                    !.attempt = @ + 1])
               /\ pc' = "attempt"
               /\ trace' = tr
               /\ UNCHANGED <<others, platform, orig, sp, mode, playbook, ctxDone, retErr,
                              vars, idx, hidx, notifiedHandlers, report>>
           ELSE
               Resume(Exhausted(Append(rest, [top EXCEPT !.result = Failed(bad, o.err)]),
                                vars, tr),
                      stack[1].origin, stack[1].idx)

\* Lines 344-355: the retry delay, ended by the timer or by cancellation
RetryDelay ==
    /\ pc = "delay"
    /\ LET top  == stack[Len(stack)]
           rest == SubSeq(stack, 1, Len(stack) - 1)
       IN  IF ctxDone THEN
               Resume(ReturnFrom(stack,
                         [top.result EXCEPT !.Status = TaskStatusFailed,
                                            !.Error = <<"cancelled during retry delay">>],
                         trace),
                      stack[1].origin, stack[1].idx)
           ELSE
               /\ stack' = Append(rest, [top EXCEPT !.attempt = @ + 1])
               /\ pc' = "attempt"
               /\ UNCHANGED <<others, platform, orig, sp, mode, playbook, ctxDone, retErr,
                              vars, idx, hidx, notifiedHandlers, report, trace>>

\* Lines 209-228: the handler loop from position hidx: the next notified
\* handler is run up to its first attempt, or Execute completes.
HandlerLoop ==
    /\ pc = "handlers"
    /\ LET pb   == playbook[1]
           next == {j \in hidx..Len(pb.Handlers) : pb.Handlers[j].Name \in notifiedHandlers}
       IN  IF next = {} THEN
               /\ report' = [report EXCEPT !.Status = "completed",
                                           !.RebootRequired = pb.RequiresReboot]
               /\ retErr' = "nil"
               /\ pc' = "done"
               /\ UNCHANGED <<others, platform, orig, sp, mode, playbook, ctxDone, vars, idx,
                              hidx, stack, notifiedHandlers, trace>>
           ELSE LET j == CHOOSE j \in next : \A k \in next : j <= k
                IN  Resume(Call(<<>>, pb.Handlers[j], vars, "handler", j, trace),
                           "handler", j)

\* The caller's context is cancelled while Execute runs
Cancel ==
    /\ pc \in {"tasks", "attempt", "delay", "handlers"}
    /\ ~ctxDone
    /\ ctxDone' = TRUE
    /\ UNCHANGED <<others, platform, orig, sp, mode, pc, report, retErr, playbook, vars,
                   notifiedHandlers, idx, hidx, stack, trace>>

\* The loop of DryRun (lines 426-463) over tasks[i..], from report rep
RECURSIVE Simulate(_, _, _)
Simulate(tasks, i, rep) ==
    IF i > Len(tasks) THEN rep
    ELSE LET task == tasks[i]
             r0   == NewResult(task)
             filtered == task.Platform # "" /\ task.Platform # platform
             badWhen  == ~filtered /\ task.When # <<>> /\ ~ValidateCondition(task.When)
             sim1 == IF filtered
                     THEN [r0 EXCEPT !.Status = TaskStatusSkipped,
                                     !.Message = "Would skip: platform filter"]
                     ELSE IF badWhen
                     THEN [r0 EXCEPT !.Status = TaskStatusFailed,
                                     !.Error = <<"Invalid condition">>]
                     ELSE IF task.When # <<>>
                     THEN [r0 EXCEPT !.Message = "Would execute if condition is true"]
                     ELSE [r0 EXCEPT !.Message = "Would execute"]
             noHandler == task.Action \notin handlers
             sim2 == IF noHandler
                     THEN [sim1 EXCEPT !.Status = TaskStatusFailed,
                                       !.Error = <<"No handler for action">>]
                     ELSE sim1
         IN  Simulate(tasks, i + 1,
                [rep EXCEPT !.TaskResults = Append(@, sim2),
                            !.TasksFailed = @ + (IF badWhen THEN 1 ELSE 0)
                                              + (IF noHandler THEN 1 ELSE 0)])

\* A dry run that goes on to the task loop as Execute does
DryRunDispatches(vr, pr) == ExecuteWith(vr, pr)

\* Executor.DryRun; vr is what Verify returns and pr what Parse returns
DryRunWith(vr, pr) ==
    LET rep0 == [NewReport("dry_run") EXCEPT !.Verification = vr.record]
        tr   == Append(trace, ParseEvent)
    IN  IF vr.err # "nil" THEN
            Return(rep0, "rejected", <<"SECURITY", vr.err>>, vr.err, trace)
        ELSE IF pr.err # "nil" THEN
            Return(rep0, "failed", <<"Parse error", pr.err>>, pr.err, tr)
        ELSE
            LET rep1 == Simulate(pr.pb[1].Tasks, 1,
                           [rep0 EXCEPT !.PlaybookName = pr.pb[1].Name,
                                        !.TasksTotal = Len(pr.pb[1].Tasks)])
            IN  IF rep1.TasksFailed > 0
                THEN Return(rep1, "dry_run_failed", <<>>, "dry run found issues", tr)
                ELSE Return(rep1, "dry_run_ok", <<>>, "nil", tr)

DryRun ==
    /\ pc = "idle"
    /\ mode' = "dryrun"
    /\ DryRunWith(Verify(sp), Parse(platform, sp.Content))

-----------------------------------------------------------------------------
(* The playbooks and envelopes of the model                                *)

BaseTask ==
    [Name |-> "t", Platform |-> "", When |-> <<>>, Action |-> ActionCommand,
     Params |-> [command |-> <<"echo">>], Register |-> "", IgnoreErrors |-> FALSE,
     Retries |-> 0, RetryDelay |-> 0, Notify |-> <<>>, Rollback |-> <<>>]

RollbackTask == [BaseTask EXCEPT !.Name = "rb", !.Params = [command |-> <<"undo">>]]

\* The shapes a task of a generated playbook takes
TaskPool ==
    {[BaseTask EXCEPT !.Notify = <<"reload">>, !.Register = "r"],
     [BaseTask EXCEPT !.When = <<"r.stdout", "contains", "'installed'">>,
                      !.Params = [command |-> <<"echo ", "{{ r.stdout }}">>],
                      !.Register = "r",
                      !.Notify = <<"restart", "reload", "reload">>],
     [BaseTask EXCEPT !.Platform = PlatformWindows, !.Action = ActionRegistry,
                      !.Params = [path |-> <<"HKLM">>], !.When = <<"r.bogus">>,
                      !.Register = "r", !.Notify = <<"reload">>],
     [BaseTask EXCEPT !.Platform = PlatformAndroid, !.Action = ActionPackage,
                      !.Params = [name |-> <<"pkg">>], !.IgnoreErrors = TRUE],
     [BaseTask EXCEPT !.Retries = 1, !.RetryDelay = 1, !.Rollback = <<RollbackTask>>,
                      !.Notify = <<"reload">>],
     [BaseTask EXCEPT !.Action = ActionService, !.Params = [name |-> <<"svc">>],
                      !.IgnoreErrors = TRUE, !.Retries = 1, !.Register = "s"],
     [BaseTask EXCEPT !.When = <<"r.exit_code", ">", "x">>],
     [BaseTask EXCEPT !.Params = [command |-> <<"{{ missing }}">>],
                      !.Rollback = <<RollbackTask>>],
     [BaseTask EXCEPT !.Platform = PlatformAndroid, !.Action = ActionPackage,
                      !.Params = [name |-> <<"pkg">>], !.When = <<"who", "knows">>],
     [BaseTask EXCEPT !.When = <<"r.bogus">>]}

\* The shapes that register a result under "r" and read it back
RegisterPool ==
    {[BaseTask EXCEPT !.Notify = <<"reload">>, !.Register = "r"],
     [BaseTask EXCEPT !.When = <<"r.stdout", "contains", "'installed'">>,
                      !.Params = [command |-> <<"echo ", "{{ r.stdout }}">>],
                      !.Register = "r",
                      !.Notify = <<"restart", "reload", "reload">>],
     [BaseTask EXCEPT !.Platform = PlatformWindows, !.Register = "r"],
     [BaseTask EXCEPT !.IgnoreErrors = TRUE, !.Register = "r"]}

TaskNames == <<"t1", "t2", "t3", "t4", "t5">>

\* The task lists: every sequence of at most n shapes of pool, the task at
\* position i being named after i
RECURSIVE TaskLists(_, _)
TaskLists(pool, n) ==
    IF n = 0 THEN {<<>>}
    ELSE TaskLists(pool, n - 1) \cup
         {Append(l, [t EXCEPT !.Name = TaskNames[n]]) :
             l \in {x \in TaskLists(pool, n - 1) : Len(x) = n - 1}, t \in pool}

HReload  == [BaseTask EXCEPT !.Name = "reload", !.Params = [command |-> <<"reload">>],
                             !.Register = "r"]
HRestart == [BaseTask EXCEPT !.Name = "restart", !.Action = ActionService,
                             !.Params = [name |-> <<"svc">>], !.IgnoreErrors = TRUE]
HReloadAgain == [HReload EXCEPT !.Params = [command |-> <<"reload again">>]]

\* The `handlers` and `on_error` sections the generated playbooks take
Sections ==
    {[handlers |-> <<>>, on_error |-> <<>>],
     [handlers |-> <<HReload>>, on_error |-> <<[Strategy |-> "stop"]>>],
     [handlers |-> <<HRestart, HReload>>, on_error |-> <<>>],
     [handlers |-> <<HReload, HReloadAgain>>, on_error |-> <<[Strategy |-> "continue"]>>],
     [handlers |-> <<[HRestart EXCEPT !.Platform = PlatformWindows], HReload>>,
      on_error |-> <<[Strategy |-> "rollback"]>>],
     [handlers |-> <<HReload>>, on_error |-> <<[Strategy |-> ""]>>]}

Doc(tasks, sec) ==
    [kind |-> "yaml", version |-> "1.0", name |-> "pb", platforms |-> <<>>,
     requires_reboot |-> TRUE, variables |-> [who |-> "world"],
     tasks |-> tasks, handlers |-> sec.handlers, on_error |-> sec.on_error]

\* The contents that are valid playbooks with a task list of the pool
ExecContents ==
    {<<Doc(l, sec)>> :
        l \in (TaskLists(TaskPool, MaxTasks)
                 \cup TaskLists(RegisterPool, MaxRegisterTasks)) \ {<<>>},
        sec \in Sections}

DocMinimal == Doc(<<[BaseTask EXCEPT !.Name = "noop"]>>, [handlers |-> <<>>, on_error |-> <<>>])

\* Contents that are rejected or fail to parse: the empty text, text that
\* is not YAML, a playbook without a name, one for another platform
ProbeContents ==
    {<<>>,
     <<[kind |-> "garbage"]>>,
     <<DocMinimal>>,
     <<[DocMinimal EXCEPT !.name = ""]>>,
     <<[DocMinimal EXCEPT !.platforms = <<PlatformWindows, PlatformDarwin>>]>>}

\* Documents the parser has to turn down: no name, no tasks, and a task or
\* a handler without a name, without an action, with an action outside the
\* action set, with a negative retries or retry_delay, without its
\* required params
BadTasks ==
    {[BaseTask EXCEPT !.Name = ""], [BaseTask EXCEPT !.Action = ""],
     [BaseTask EXCEPT !.Action = "shell"], [BaseTask EXCEPT !.Retries = -1],
     [BaseTask EXCEPT !.RetryDelay = -1], [BaseTask EXCEPT !.Params = <<>>]}

InvalidContents ==
    {<<[DocMinimal EXCEPT !.name = ""]>>, <<[DocMinimal EXCEPT !.tasks = <<>>]>>,
     <<[DocMinimal EXCEPT !.version = "2.0"]>>}
    \cup {<<[DocMinimal EXCEPT !.tasks = <<t>>]>> : t \in BadTasks}
    \cup {<<[DocMinimal EXCEPT !.tasks = <<BaseTask, t>>]>> : t \in BadTasks}
    \cup {<<[DocMinimal EXCEPT !.handlers = <<t>>]>> : t \in BadTasks}

\* Documents whose only defect is in the rollback task of a task
RollbackContents ==
    {<<[DocMinimal EXCEPT !.tasks = <<[BaseTask EXCEPT !.Rollback = <<t>>]>>]>> :
        t \in BadTasks}

\* The hosts an agent is built for
AllHosts == {PlatformWindows, PlatformLinux, PlatformDarwin, PlatformAndroid}

\* A task of each platform-exclusive action, with its required params, for
\* each value of `platform`
ExclusiveTasks ==
    {[BaseTask EXCEPT !.Action = a, !.Platform = pl,
                      !.Params = [k \in RequiredParams(a) |-> <<"v">>]] :
        a \in {ActionRegistry, ActionSysctl, ActionDefaults, ActionSettings,
               ActionPackage},
        pl \in AllHosts \cup {""}}

\* Playbooks that hold such a task as their task, as the rollback of their
\* task, or as a notified handler
PlatformContents ==
    {<<[DocMinimal EXCEPT !.tasks = <<t>>]>> : t \in ExclusiveTasks}
    \cup {<<[DocMinimal EXCEPT !.tasks = <<[BaseTask EXCEPT !.Rollback = <<t>>]>>]>> :
             t \in ExclusiveTasks}
    \cup {<<[DocMinimal EXCEPT !.tasks = <<[BaseTask EXCEPT !.Notify = <<"reload">>]>>,
                               !.handlers = <<[t EXCEPT !.Name = "reload"]>>]>> :
             t \in ExclusiveTasks}

Statuses ==
    {StatusPending, StatusApproved, StatusRejected, StatusDeprecated, StatusTest,
     "", "APPROVED"}

Envelope(content, hash, sig, status) ==
    [Content |-> content, SHA256Hash |-> hash, Signature |-> sig, Status |-> status]

\* The envelope the control plane issues for a content
Issued(content, status) ==
    Envelope(content, CalculateHash(content),
             Sign(ServerKey, "raw", Sha256Sum(content)), status)

ProbeSignatures ==
    {<<>>}
    \cup {Sign(k, "raw", Sha256Sum(c)) : k \in {ServerKey, AttackerKey}, c \in ProbeContents}
    \cup {Sign(ServerKey, "hex", CalculateHash(c)) : c \in ProbeContents}

\* Every combination of fields over the probe contents
ProbeEnvelopes ==
    {Envelope(c, h, g, st) :
        c \in ProbeContents,
        h \in {<<>>} \cup {CalculateHash(c2) : c2 \in ProbeContents},
        g \in ProbeSignatures,
        st \in Statuses}

Hosts == {PlatformLinux, PlatformAndroid}

-----------------------------------------------------------------------------
(* Job runner                                                              *)

\* The goroutines of runAgent that call JobRunner.RunOnce: the initial job
\* check, one goroutine per WebSocket notification, and the main loop on
\* the poll ticker.
Goroutines ==
    {<<"initial", 1>>, <<"poll", 1>>} \cup {<<"ws", n>> : n \in 1..MaxNotifications}

\* How many times a goroutine calls RunOnce
CallsOf(g) == IF g[1] = "poll" THEN MaxPolls ELSE 1

\* The pending jobs of the control plane, and what GetPendingJobs returns
JobIDs == {"j1", "j2"}

JobLists == {<<>>, <<"j1">>, <<"j2", "j1">>}

\* A runner whose busy test never finds the flag set
BusyNever(running) == FALSE

\* CheckAndRunJobs, line 87: another call is in progress
Busy(running) == running

\* A deferred function that leaves the flag set
ReleasedNever(running) == running

\* CheckAndRunJobs, lines 93-97: the value the deferred function stores
Released(running) == FALSE

\* The call of g goes to position p
Goto(g, p) == gpc' = [gpc EXCEPT ![g] = p]

\* CheckAndRunJobs returns: the deferred function runs next
ReturnJobs(g, how) ==
    /\ Goto(g, "release")
    /\ ret' = [ret EXCEPT ![g] = how]

\* RunOnce -> CheckAndRunJobs, lines 83-91: under the mutex, return 0 when a
\* call is in progress, else take the flag.
CheckAndRunJobs(g) ==
    /\ gpc[g] = "idle"
    /\ executed' = [executed EXCEPT ![g] = 0]
    /\ jobs' = [jobs EXCEPT ![g] = <<>>]
    /\ IF Busy(isRunning)
       THEN /\ ret' = [ret EXCEPT ![g] = "busy"]
            /\ UNCHANGED <<isRunning, gpc>>
       ELSE /\ isRunning' = TRUE
            /\ Goto(g, "fetch")
            /\ ret' = [ret EXCEPT ![g] = "running"]
    /\ UNCHANGED <<job, submitted, agentCtxDone>>

\* One of the calls of RunOnce that goroutine g makes
RunOnce(g) ==
    /\ calls[g] < CallsOf(g)
    /\ calls' = [calls EXCEPT ![g] = @ + 1]
    /\ CheckAndRunJobs(g)
    /\ UNCHANGED notJobs

\* Lines 100-107: GetPendingJobs fails, or returns the list js
GetPendingJobs(g, failed, js) ==
    /\ gpc[g] = "fetch"
    /\ IF failed THEN ReturnJobs(g, "fetch error") /\ UNCHANGED jobs
       ELSE IF Len(js) = 0 THEN ReturnJobs(g, "no jobs") /\ UNCHANGED jobs
       ELSE /\ jobs' = [jobs EXCEPT ![g] = js]
            /\ Goto(g, "loop")
            /\ UNCHANGED ret
    /\ UNCHANGED <<notJobs, isRunning, calls, job, executed, submitted, agentCtxDone>>

\* Lines 110-116 and 126: the head of the loop over the fetched jobs
JobLoop(g) ==
    /\ gpc[g] = "loop"
    /\ IF jobs[g] = <<>> THEN
           ReturnJobs(g, "done") /\ UNCHANGED <<jobs, job>>
       ELSE IF agentCtxDone THEN
           ReturnJobs(g, "cancelled") /\ UNCHANGED <<jobs, job>>
       ELSE /\ job' = [job EXCEPT ![g] = <<Head(jobs[g])>>]
            /\ jobs' = [jobs EXCEPT ![g] = Tail(@)]
            /\ Goto(g, "mark")
            /\ UNCHANGED ret
    /\ UNCHANGED <<notJobs, isRunning, calls, executed, submitted, agentCtxDone>>

\* executeJob has returned (lines 118-124): the job is counted
JobDone(g) ==
    /\ Goto(g, "loop")
    /\ job' = [job EXCEPT ![g] = <<>>]
    /\ executed' = [executed EXCEPT ![g] = @ + 1]

\* A report for the job of g is sent to the control plane
Submit(g) == submitted' = [submitted EXCEPT ![job[g][1]] = @ + 1]

\* executeJob, lines 144-146: MarkJobStarted succeeds or fails
MarkJobStarted(g, failed) ==
    /\ gpc[g] = "mark"
    /\ IF failed THEN JobDone(g)
       ELSE Goto(g, "playbook") /\ UNCHANGED <<job, executed>>
    /\ UNCHANGED <<notJobs, isRunning, calls, ret, jobs, submitted, agentCtxDone>>

\* executeJob, lines 149-160 and 191-213: the playbook is fetched, or the
\* fetch fails and reportJobError submits an error report
GetPlaybook(g, failed) ==
    /\ gpc[g] = "playbook"
    /\ IF failed THEN JobDone(g) /\ Submit(g)
       ELSE Goto(g, "execute") /\ UNCHANGED <<job, executed, submitted>>
    /\ UNCHANGED <<notJobs, isRunning, calls, ret, jobs, agentCtxDone>>

\* executeJob, lines 166-187: Executor.Execute runs and returns, and the
\* report is submitted
ExecuteJob(g) ==
    /\ gpc[g] = "execute"
    /\ JobDone(g)
    /\ Submit(g)
    /\ UNCHANGED <<notJobs, isRunning, calls, ret, jobs, agentCtxDone>>

\* Lines 93-97: the deferred function of CheckAndRunJobs
Release(g) ==
    /\ gpc[g] = "release"
    /\ isRunning' = Released(isRunning)
    /\ Goto(g, "idle")
    /\ UNCHANGED <<notJobs, calls, ret, jobs, job, executed, submitted, agentCtxDone>>

\* runAgent's context is cancelled (signal or service stop)
CancelAgent ==
    /\ ~agentCtxDone
    /\ agentCtxDone' = TRUE
    /\ UNCHANGED <<notJobs, isRunning, gpc, calls, ret, jobs, job, executed, submitted>>

\* NewJobRunner: no call in progress
InitJobs ==
    /\ isRunning = FALSE
    /\ gpc = [g \in Goroutines |-> "idle"]
    /\ calls = [g \in Goroutines |-> 0]
    /\ ret = [g \in Goroutines |-> "none"]
    /\ jobs = [g \in Goroutines |-> <<>>]
    /\ job = [g \in Goroutines |-> <<>>]
    /\ executed = [g \in Goroutines |-> 0]
    /\ submitted = [j \in JobIDs |-> 0]
    /\ agentCtxDone = FALSE

-----------------------------------------------------------------------------
(* Calls of Condition.Evaluate                                             *)

\* The operands of the expressions evaluated: the literals, a defined and
\* an undefined variable, and a comparison that raises an error (">" with
\* an operand that is no number)
CondOperands == {<<"true">>, <<"false">>, <<"who">>, <<"missing">>, <<"1", ">", "x">>}

\* The text of the expression of form o.form over the operands o.a, o.b, o.c
\* The expressions with parentheses and `not`, over the operands true and
\* false
CondForms ==
    {"a and (b or c)", "(a and b) or (c and d)", "not (a or b)",
     "(a or b) and (c or d)", "((a or b) and c)", "not (a and b) or c",
     "a or b and (c or d)", "(a or b) and c or d"}

CondBooleans == {<<"true">>, <<"false">>}

CondText(o) ==
    CASE o.form = "a" -> o.a
      [] o.form = "a and (b or c)" ->
            o.a \o <<"and", "(">> \o o.b \o <<"or">> \o o.c \o <<")">>
      [] o.form = "(a and b) or (c and d)" ->
            <<"(">> \o o.a \o <<"and">> \o o.b \o <<")", "or", "(">>
                \o o.c \o <<"and">> \o o.d \o <<")">>
      [] o.form = "not (a or b)" ->
            <<"not", "(">> \o o.a \o <<"or">> \o o.b \o <<")">>
      [] o.form = "(a or b) and (c or d)" ->
            <<"(">> \o o.a \o <<"or">> \o o.b \o <<")", "and", "(">>
                \o o.c \o <<"or">> \o o.d \o <<")">>
      [] o.form = "((a or b) and c)" ->
            <<"(", "(">> \o o.a \o <<"or">> \o o.b \o <<")", "and">> \o o.c \o <<")">>
      [] o.form = "not (a and b) or c" ->
            <<"not", "(">> \o o.a \o <<"and">> \o o.b \o <<")", "or">> \o o.c
      [] o.form = "a or b and (c or d)" ->
            o.a \o <<"or">> \o o.b \o <<"and", "(">> \o o.c \o <<"or">> \o o.d \o <<")">>
      [] o.form = "(a or b) and c or d" ->
            <<"(">> \o o.a \o <<"or">> \o o.b \o <<")", "and">> \o o.c
                \o <<"or">> \o o.d
      [] o.form = "a == b" -> o.a \o <<"==">> \o o.b
      [] o.form = "a or b and c" -> o.a \o <<"or">> \o o.b \o <<"and">> \o o.c
      [] o.form = "a and b or c" -> o.a \o <<"and">> \o o.b \o <<"or">> \o o.c
      [] o.form = "a and b"      -> o.a \o <<"and">> \o o.b
      [] OTHER                   -> o.a \o <<"or">> \o o.b

\* The single values evaluated on their own: the empty expression, the
\* literals, numbers, quoted strings, and names that are defined (who,
\* quiet) or not (x, missing, TRUE)
CondValues ==
    {<<>>, <<"true">>, <<"false">>, <<"0">>, <<"1">>, <<"x">>, <<"who">>, <<"quiet">>,
     <<"missing">>, <<"TRUE">>, <<"''">>, <<"'true'">>, <<"'No'">>, <<"'OFF'">>,
     <<"' false '">>, <<"' '">>, <<"'0'">>, <<"'Null'">>, <<"'installed'">>}

\* The names compared with a quoted value: built-ins that the playbook also
\* defines (platform, os_family), a built-in (arch) and a user variable
CondNames == {"platform", "os_family", "arch", "who"}

CondLiterals == {"'beos'", "'custom'", "'linux'", "'android'", "'amd64'", "'world'"}

CondInputs ==
    {[form |-> "a", a |-> a, b |-> <<"true">>, c |-> <<"true">>, d |-> <<"true">>] : a \in CondValues}
    \cup
    {[form |-> "a == b", a |-> <<n>>, b |-> <<l>>, c |-> <<"true">>, d |-> <<"true">>] :
        n \in CondNames, l \in CondLiterals}
    \cup
    {[form |-> f, a |-> a, b |-> b, c |-> c, d |-> <<"true">>] :
        f \in {"a or b and c", "a and b or c"},
        a \in CondOperands, b \in CondOperands, c \in CondOperands}
    \cup
    {[form |-> f, a |-> a, b |-> b, c |-> c, d |-> d] :
        f \in CondForms, a \in CondBooleans, b \in CondBooleans,
        c \in CondBooleans, d \in CondBooleans}
    \cup {[form |-> f, a |-> a, b |-> b, c |-> <<"true">>, d |-> <<"true">>] :
        f \in {"a and b", "a or b"}, a \in CondOperands, b \in CondOperands}

\* The Variables of the Condition: the built-ins and the user variables of
\* a playbook that defines who and quiet and redefines platform and os_family
CondVariables ==
    SetUserVars(NewVariables(platform),
                [who |-> "world", quiet |-> "No", platform |-> "beos",
                 os_family |-> "custom"])

\* No expression has been evaluated
InitCond ==
    /\ condOperands = [form |-> "a or b", a |-> <<"true">>, b |-> <<"true">>,
                       c |-> <<"true">>, d |-> <<"true">>]
    /\ condExpression = <<>>
    /\ condResult = <<>>
    /\ condSubstituted = <<>>
    /\ subInput = String(<<>>)
    /\ subOutput = <<>>

\* NewCondition(vars).Evaluate(expression)
EvaluateCall ==
    /\ condResult = <<>>
    /\ condResult' = <<Evaluate(CondVariables, condExpression)>>
    /\ UNCHANGED <<execVars, jobVars, handlerVars, wsVars, condOperands, condExpression,
                   condSubstituted, subInput, subOutput>>

\* The text "{{ name }}" that refers to name
Reference(name) == CHOOSE m \in DOMAIN VarPattern : VarPattern[m] = name

\* vars.Substitute("{{ name }}") for the name that is the left operand
SubstituteCall ==
    /\ condSubstituted = <<>>
    /\ Len(condOperands.a) = 1
    /\ \E m \in DOMAIN VarPattern : VarPattern[m] = condOperands.a[1]
    /\ condSubstituted' = <<Substitute(CondVariables, <<Reference(condOperands.a[1])>>)>>
    /\ UNCHANGED <<execVars, jobVars, handlerVars, wsVars, condOperands, condExpression,
                   condResult, subInput, subOutput>>

-----------------------------------------------------------------------------
(* Calls of Variables.Substitute and Variables.SubstituteMap               *)

\* The Variables of the calls: user variables, one of which holds the text
\* of a reference (tpl) and one of which was given as "${CHAIN}" (home),
\* and the result r of a task that printed the text of a reference
SubstVariables ==
    SetTaskResult(
        SetUserVars(NewVariables(platform),
                    [who |-> "world", tpl |-> "{{ who }}", home |-> "${CHAIN}"]),
        "r", [Status |-> TaskStatusCompleted, Changed |-> TRUE, ExitCode |-> 0,
              Stdout |-> "{{ who }}", Stderr |-> "${DEBUG}"])

\* The strings a reference is looked for in
SubstLeaves ==
    {<<"{{ who }}">>, <<"{{ missing }}">>, <<"{{ r.bogus }}">>, <<"plain">>,
     <<"echo ", "{{ arch }}">>, <<"echo ", "{{ missing }}">>}

\* A value with the string leaf at nesting depth 0, 1 or 2, below mappings
\* and sequences in every order
SubstValues ==
    LET depth0 == {String(l) : l \in SubstLeaves} \cup {Scalar(1)}
        wrap(x) == {Mapping([key |-> x]), Slice(<<x>>), Slice(<<String(<<"plain">>), x>>),
                    Mapping([key |-> x, other |-> String(<<"{{ who }}">>)])}
        depth1 == UNION {wrap(x) : x \in depth0}
        depth2 == UNION {wrap(x) : x \in depth1}
    IN  depth0 \cup depth1 \cup depth2

\* The strings handed to Substitute: references whose value holds the text
\* of a reference, and references whose value does not
SubstStrings ==
    {<<"${TPL}">>, <<"${CHAIN}">>, <<"${DEBUG}">>, <<"${UNSET}">>, <<"{{ tpl }}">>,
     <<"{{ home }}">>, <<"{{ env.TPL }}">>, <<"{{ r.stdout }}">>, <<"{{ r.stderr }}">>,
     <<"{{ who }}">>, <<"{{ env.DEBUG }}">>, <<"run ", "${TPL}", " as ", "{{ tpl }}">>}

SubstInputs ==
    {String(t) : t \in SubstStrings} \cup {Mapping([args |-> x]) : x \in SubstValues}

\* vars.Substitute(input)
SubstituteStringCall ==
    /\ subOutput = <<>>
    /\ subInput.kind = "string"
    /\ subInput.val # <<>>
    /\ subOutput' = <<Substitute(SubstVariables, subInput.val)>>
    /\ UNCHANGED <<execVars, jobVars, handlerVars, wsVars, condOperands, condExpression,
                   condResult, condSubstituted, subInput>>

\* vars.SubstituteMap(task.Params)
SubstituteMapCall ==
    /\ subOutput = <<>>
    /\ subInput.kind = "map"
    /\ subOutput' = <<SubstituteParams(SubstVariables, subInput.val)>>
    /\ UNCHANGED <<execVars, jobVars, handlerVars, wsVars, condOperands, condExpression,
                   condResult, condSubstituted, subInput>>

-----------------------------------------------------------------------------
(* Action handlers.  The host is one path, which does not exist (<<>>) or  *)
(* is a directory or a file with its lines (strings.Split(content, "\n"),  *)
(* so <<"">> is the empty file) and its mode, and one service.  Params are *)
(* a map of strings; a handler call yields the host it leaves, the         *)
(* `changed` flag of its result and whether it returned an error.          *)

\* How many times in a row a handler is called with the same params
MaxRuns == 2

\* regexp.MatchString for the patterns and lines of the model
MatchString(regex, l) == regex = "^port=" /\ l \in {"port=1", "port=2"}

Done(h, changed) == [host |-> h, changed |-> changed, err |-> FALSE]

Fails(h) == [host |-> h, changed |-> FALSE, err |-> TRUE]

Has(params, k) == k \in DOMAIN params

\* cmd.Run(): a child process is started for the shell command, and the
\* command does its work on the host: "mk" creates the file when the path
\* does not exist, "rm" removes the path, any other command leaves the
\* files alone
RunCommand(h, cmdStr) ==
    LET ran == [h EXCEPT !.procs = @ + 1]
    IN  IF cmdStr = "mk" /\ h.file = <<>>
        THEN [ran EXCEPT !.file = <<[kind |-> "file", lines |-> <<"">>, mode |-> "644"]>>]
        ELSE IF cmdStr = "rm" THEN [ran EXCEPT !.file = <<>>]
        ELSE ran

\* fileExists(path)
fileExists(h) == h.file # <<>>

\* CommandHandler.Execute for a command that exits 0: the command is run,
\* changed is true, and is set back to false when `creates` names a path
\* that exists once the command has run
CommandExecute(h, params) ==
    LET after == RunCommand(h, params.command)
    IN  IF Has(params, "creates") /\ params.creates # "" /\ fileExists(after)
        THEN Done(after, FALSE)
        ELSE Done(after, TRUE)

\* FileHandler.setPermissions: chmod when `mode` is given and differs
setPermissions(h, params) ==
    IF Has(params, "mode") /\ h.file[1].mode # params.mode
    THEN Done([h EXCEPT !.file[1].mode = params.mode], TRUE)
    ELSE Done(h, FALSE)

\* FileHandler.ensureAbsent
fileEnsureAbsent(h, params) ==
    IF h.file = <<>> THEN Done(h, FALSE) ELSE Done([h EXCEPT !.file = <<>>], TRUE)

\* FileHandler.ensureDirectory
ensureDirectory(h, params) ==
    IF h.file # <<>> THEN
        IF h.file[1].kind = "dir" THEN setPermissions(h, params) ELSE Fails(h)
    ELSE Done([h EXCEPT !.file =
                 <<[kind |-> "dir", lines |-> <<>>,
                    mode |-> IF Has(params, "mode") THEN params.mode ELSE "755"]>>],
              TRUE)

\* FileHandler.ensureFile with `content` or with neither `content` nor `src`
ensureFile(h, params) ==
    LET newContent == IF Has(params, "content") THEN <<params.content>> ELSE <<"">>
        written(old) ==
            [kind  |-> "file", lines |-> newContent,
             mode  |-> IF Has(params, "mode") THEN params.mode
                       ELSE IF old = <<>> THEN "644" ELSE old[1].mode]
    IN  IF h.file # <<>> /\ h.file[1].kind = "dir" THEN Fails(h)
        ELSE IF h.file # <<>> /\ (newContent = <<"">> \/ h.file[1].lines = newContent)
        THEN setPermissions(h, params)
        ELSE Done([h EXCEPT !.file = <<written(h.file)>>], TRUE)

\* FileHandler.touchFile: the file is created, or its times are updated
touchFile(h, params) ==
    IF h.file = <<>>
    THEN Done([h EXCEPT !.file =
                 <<[kind |-> "file", lines |-> <<"">>,
                    mode |-> IF Has(params, "mode") THEN params.mode ELSE "644"]>>],
              TRUE)
    ELSE Done(h, TRUE)

\* FileHandler.Execute
FileExecute(h, params) ==
    LET state == IF Has(params, "state") THEN params.state ELSE "file"
    IN  CASE state = "absent"    -> fileEnsureAbsent(h, params)
          [] state = "directory" -> ensureDirectory(h, params)
          [] state = "file"      -> ensureFile(h, params)
          [] state = "touch"     -> touchFile(h, params)
          [] OTHER               -> Fails(h)

\* The first line of lines that the pattern matches (0 for none)
FirstMatch(lines, regex) ==
    LET at == {i \in 1..Len(lines) : MatchString(regex, lines[i])}
    IN  IF at = {} THEN 0 ELSE CHOOSE i \in at : \A j \in at : i <= j

\* LineinfileHandler.insertLine without insertafter / insertbefore
insertLine(lines, line) == Append(lines, line)

\* LineinfileHandler.ensurePresent (create defaults to true): the lines it
\* leaves and whether it changed them
presentLines(lines, params) ==
    LET hasLine  == Has(params, "line")
        hasRegex == Has(params, "regexp")
        m        == IF hasRegex THEN FirstMatch(lines, params.regexp) ELSE 0
    IN  IF hasRegex THEN
            IF m # 0 THEN
                IF hasLine /\ lines[m] # params.line
                THEN [lines |-> [lines EXCEPT ![m] = params.line], changed |-> TRUE]
                ELSE [lines |-> lines, changed |-> FALSE]
            ELSE IF hasLine
                THEN [lines |-> insertLine(lines, params.line), changed |-> TRUE]
                ELSE [lines |-> lines, changed |-> FALSE]
        ELSE IF \E i \in 1..Len(lines) : lines[i] = params.line
            THEN [lines |-> lines, changed |-> FALSE]
            ELSE [lines |-> insertLine(lines, params.line), changed |-> TRUE]

ensurePresent(h, params) ==
    IF ~Has(params, "line") /\ ~Has(params, "regexp") THEN Fails(h)
    ELSE IF h.file # <<>> /\ h.file[1].kind = "dir" THEN Fails(h)
    ELSE LET old == IF h.file = <<>> THEN <<"">> ELSE h.file[1].lines
             new == presentLines(old, params)
         IN  IF ~new.changed THEN Done(h, FALSE)
             ELSE Done([h EXCEPT !.file =
                          <<[kind |-> "file", lines |-> new.lines,
                             mode |-> IF h.file = <<>> THEN "644" ELSE h.file[1].mode]>>],
                       TRUE)

\* LineinfileHandler.ensureAbsent: the lines that are kept
RECURSIVE keptLines(_, _)
keptLines(lines, params) ==
    IF lines = <<>> THEN <<>>
    ELSE LET l == Head(lines)
             remove == \/ Has(params, "regexp") /\ MatchString(params.regexp, l)
                       \/ Has(params, "line") /\ l = params.line
         IN  (IF remove THEN <<>> ELSE <<l>>) \o keptLines(Tail(lines), params)

lineEnsureAbsent(h, params) ==
    IF ~Has(params, "line") /\ ~Has(params, "regexp") THEN Fails(h)
    ELSE IF h.file = <<>> THEN Done(h, FALSE)
    ELSE IF h.file[1].kind = "dir" THEN Fails(h)
    ELSE LET kept == keptLines(h.file[1].lines, params)
         IN  IF kept = h.file[1].lines THEN Done(h, FALSE)
             ELSE Done([h EXCEPT !.file[1].lines = IF kept = <<>> THEN <<"">> ELSE kept],
                       TRUE)

\* LineinfileHandler.Execute
LineinfileExecute(h, params) ==
    LET state == IF Has(params, "state") THEN params.state ELSE "present"
    IN  CASE state = "present" -> ensurePresent(h, params)
          [] state = "absent"  -> lineEnsureAbsent(h, params)
          [] OTHER             -> Fails(h)

\* ServiceHandler.Execute on a host where the service manager's commands
\* succeed: ensureStarted, ensureStopped and restart
ServiceExecute(h, params) ==
    LET state == IF Has(params, "state") THEN params.state ELSE ""
    IN  CASE state = ""          -> Done(h, FALSE)
          [] state = "started"   -> IF h.running THEN Done(h, FALSE)
                                    ELSE Done([h EXCEPT !.running = TRUE], TRUE)
          [] state = "stopped"   -> IF ~h.running THEN Done(h, FALSE)
                                    ELSE Done([h EXCEPT !.running = FALSE], TRUE)
          [] state = "restarted" -> Done([h EXCEPT !.running = TRUE], TRUE)
          [] OTHER               -> Fails(h)

\* ActionHandler.Execute of the handler registered for the action
HandlerExecute(h, call) ==
    CASE call.action = ActionCommand    -> CommandExecute(h, call.params)
      [] call.action = ActionFile       -> FileExecute(h, call.params)
      [] call.action = ActionLineinfile -> LineinfileExecute(h, call.params)
      [] OTHER                          -> ServiceExecute(h, call.params)

\* The hosts and the handler calls of the model
HostFiles ==
    {<<>>,
     <<[kind |-> "dir", lines |-> <<>>, mode |-> "755"]>>,
     <<[kind |-> "file", lines |-> <<"">>, mode |-> "644"]>>,
     <<[kind |-> "file", lines |-> <<"port=1">>, mode |-> "644"]>>,
     <<[kind |-> "file", lines |-> <<"other", "listen=2">>, mode |-> "600"]>>}

HostStates == {[file |-> f, running |-> r, procs |-> 0] : f \in HostFiles, r \in BOOLEAN}

HandlerCalls ==
    {[action |-> ActionCommand, params |-> [command |-> "echo"]],
     [action |-> ActionCommand, params |-> [command |-> "mk", creates |-> "f"]],
     [action |-> ActionCommand, params |-> [command |-> "echo", creates |-> "f"]],
     [action |-> ActionCommand, params |-> [command |-> "rm", creates |-> "f"]],
     [action |-> ActionFile, params |-> [path |-> "f"]],
     [action |-> ActionFile, params |-> [path |-> "f", state |-> "touch"]],
     [action |-> ActionFile, params |-> [path |-> "f", state |-> "absent"]],
     [action |-> ActionFile, params |-> [path |-> "f", state |-> "directory"]],
     [action |-> ActionFile, params |-> [path |-> "f", state |-> "file",
                                         content |-> "port=1", mode |-> "600"]],
     [action |-> ActionLineinfile, params |-> [path |-> "f", line |-> "listen=2"]],
     [action |-> ActionLineinfile,
      params |-> [path |-> "f", line |-> "port=2", regexp |-> "^port="]],
     [action |-> ActionLineinfile,
      params |-> [path |-> "f", line |-> "listen=2", regexp |-> "^port="]],
     [action |-> ActionLineinfile,
      params |-> [path |-> "f", state |-> "absent", regexp |-> "^port="]],
     [action |-> ActionLineinfile,
      params |-> [path |-> "f", state |-> "absent", line |-> "listen=2"]],
     [action |-> ActionService, params |-> [name |-> "svc", state |-> "started"]],
     [action |-> ActionService, params |-> [name |-> "svc", state |-> "stopped"]],
     [action |-> ActionService, params |-> [name |-> "svc", state |-> "restarted"]]}

\* No handler has been called
InitHost ==
    /\ host = [file |-> <<>>, running |-> FALSE, procs |-> 0]
    /\ hcall = [action |-> ActionCommand, params |-> [command |-> "echo"]]
    /\ hruns = <<>>

\* The handler is called once more with the same params, nothing else
\* having touched the host
RunHandler ==
    /\ Len(hruns) < MaxRuns
    /\ LET r == HandlerExecute(host, hcall)
       IN  /\ host' = r.host
           /\ hruns' = Append(hruns, [changed |-> r.changed, err |-> r.err])
    /\ UNCHANGED <<execVars, jobVars, condVars, wsVars, hcall>>

-----------------------------------------------------------------------------
(* The WebSocket connection of runAgent.  The control plane accepts        *)
(* connections or not; a connection that is up has a readMessages          *)
(* goroutine, which closes `done` when the connection is lost.             *)

\* How often the connection is lost and the control plane goes away
MaxLosses == 2

MaxOutages == 2

\* make(chan JobNotification, 100), scaled down
ChannelCap == 2

\* A Connect that closes `done` when the attempt fails
ConnectClosingDone(accepted) ==
    /\ wsDone' = IF accepted THEN "open" ELSE "closed"
    /\ wsConnected' = accepted

\* WebSocketClient.Connect: `done` is replaced by a new channel; when the
\* dial and the handshake succeed readMessages is started, otherwise the
\* error is returned and nothing will ever close the new channel.
Connect(accepted) ==
    /\ wsDone' = "open"
    /\ wsConnected' = accepted

\* NewWebSocketClient, before runAgent calls Connect
InitWebSocket ==
    /\ wsPc = "connect"
    /\ wsConnected = FALSE
    /\ wsDone = "open"
    /\ serverAccepts = TRUE
    /\ wsLosses = 0
    /\ wsOutages = 0
    /\ jobChannel = 0
    /\ wsDropped = FALSE
    /\ issued = {}
    /\ pending = {}

\* runAgent, lines 125-132: the first Connect; on an error the agent goes on
\* in polling mode
ConnectFirst ==
    /\ wsPc = "connect"
    /\ Connect(serverAccepts)
    /\ wsPc' = "loop"
    /\ UNCHANGED <<execVars, jobVars, condVars, handlerVars, serverAccepts, wsLosses,
                   wsOutages, jobChannel, wsDropped, issued, pending>>

\* readMessages: ReadMessage returns an error, the goroutine returns and
\* its deferred close(c.done) runs
ConnectionLost ==
    /\ wsConnected
    /\ wsLosses < MaxLosses
    /\ wsLosses' = wsLosses + 1
    /\ wsConnected' = FALSE
    /\ wsDone' = "closed"
    /\ UNCHANGED <<execVars, jobVars, condVars, handlerVars, wsPc, serverAccepts,
                   wsOutages, jobChannel, wsDropped, issued, pending>>

\* runAgent's main loop, case <-wsClient.Done(): sleep, then Connect
Reconnect ==
    /\ wsPc = "loop"
    /\ wsDone = "closed"
    /\ Connect(serverAccepts)
    /\ UNCHANGED <<execVars, jobVars, condVars, handlerVars, wsPc, serverAccepts,
                   wsLosses, wsOutages, jobChannel, wsDropped, issued, pending>>

\* readMessages receives a new_job message: it is queued when the channel
\* has room and dropped otherwise (select with default)
NewJobMessage ==
    /\ wsConnected
    /\ IF jobChannel < ChannelCap
       THEN jobChannel' = jobChannel + 1 /\ UNCHANGED wsDropped
       ELSE wsDropped' = TRUE /\ UNCHANGED jobChannel
    /\ UNCHANGED <<execVars, jobVars, condVars, handlerVars, wsPc, wsConnected, wsDone,
                   serverAccepts, wsLosses, wsOutages, issued, pending>>

\* runAgent's main loop, case notification := <-wsClient.JobChannel()
TakeNotification ==
    /\ wsPc = "loop"
    /\ jobChannel > 0
    /\ jobChannel' = jobChannel - 1
    /\ UNCHANGED <<execVars, jobVars, condVars, handlerVars, wsPc, wsConnected, wsDone,
                   serverAccepts, wsLosses, wsOutages, wsDropped, issued, pending>>

\* The control plane stops and starts accepting connections
ServerStops ==
    /\ serverAccepts
    /\ wsOutages < MaxOutages
    /\ wsOutages' = wsOutages + 1
    /\ serverAccepts' = FALSE
    /\ UNCHANGED <<execVars, jobVars, condVars, handlerVars, wsPc, wsConnected, wsDone,
                   wsLosses, jobChannel, wsDropped, issued, pending>>

ServerStarts ==
    /\ ~serverAccepts
    /\ serverAccepts' = TRUE
    /\ UNCHANGED <<execVars, jobVars, condVars, handlerVars, wsPc, wsConnected, wsDone,
                   wsLosses, wsOutages, jobChannel, wsDropped, issued, pending>>

-----------------------------------------------------------------------------
(* Jobs that become pending while the agent runs.  The control plane       *)
(* creates a job and sends a new_job message over the WebSocket; the job   *)
(* stays pending until an agent marks it started.                          *)

\* What GetPendingJobs returns: the pending jobs as a list
PendingList ==
    IF pending = {"j1", "j2"} THEN <<"j1", "j2">>
    ELSE IF pending = {"j1"} THEN <<"j1">>
    ELSE IF pending = {"j2"} THEN <<"j2">>
    ELSE <<>>

\* The control plane creates job j; readMessages, when the connection is
\* up, queues the notification or drops it when the channel is full
IssueJob(j) ==
    /\ j \notin issued
    /\ issued' = issued \cup {j}
    /\ pending' = pending \cup {j}
    /\ IF ~wsConnected THEN UNCHANGED <<jobChannel, wsDropped>>
       ELSE IF jobChannel < ChannelCap
       THEN jobChannel' = jobChannel + 1 /\ UNCHANGED wsDropped
       ELSE wsDropped' = TRUE /\ UNCHANGED jobChannel
    /\ UNCHANGED <<execVars, jobVars, condVars, handlerVars, wsPc, wsConnected, wsDone,
                   serverAccepts, wsLosses, wsOutages>>

\* A ticker that is only served while the WebSocket is down
PollTickOffline ==
    /\ wsPc = "loop"
    /\ ~wsConnected
    /\ CheckAndRunJobs(<<"poll", 1>>)
    /\ UNCHANGED <<notJobs, calls>>

\* runAgent's main loop, case <-jobPollTicker.C: RunOnce in the main
\* goroutine
PollTick ==
    /\ wsPc = "loop"
    /\ CheckAndRunJobs(<<"poll", 1>>)
    /\ UNCHANGED <<notJobs, calls>>

\* runAgent's main loop, case notification := <-wsClient.JobChannel(): the
\* notification is taken and RunOnce is started in a goroutine of its own
NotifiedRun(g) ==
    /\ g[1] = "ws"
    /\ wsPc = "loop"
    /\ gpc[<<"poll", 1>>] = "idle"
    /\ jobChannel > 0
    /\ jobChannel' = jobChannel - 1
    /\ CheckAndRunJobs(g)
    /\ UNCHANGED <<execVars, condVars, handlerVars, calls, wsPc, wsConnected, wsDone,
                   serverAccepts, wsLosses, wsOutages, wsDropped, issued, pending>>

\* GetPendingJobs answers with the pending jobs, or fails
FetchPending(g) == GetPendingJobs(g, FALSE, PendingList)

FetchFails(g) == GetPendingJobs(g, TRUE, <<>>)

\* MarkJobStarted succeeds: the job is no longer pending
MarkStarted(g) ==
    /\ gpc[g] = "mark"
    /\ Goto(g, "playbook")
    /\ pending' = pending \ {job[g][1]}
    /\ UNCHANGED <<execVars, condVars, handlerVars, isRunning, calls, ret, jobs, job,
                   executed, submitted, agentCtxDone, wsPc, wsConnected, wsDone,
                   serverAccepts, wsLosses, wsOutages, jobChannel, wsDropped, issued>>

\* The steps of a call of CheckAndRunJobs that has taken the flag, other
\* than the calls of the control plane that may fail
RunnerStep(g) ==
    \/ JobLoop(g)
    \/ GetPlaybook(g, FALSE)
    \/ ExecuteJob(g)
    \/ Release(g)

-----------------------------------------------------------------------------
(* Specification                                                           *)

Init ==
    /\ InitJobs
    /\ InitWebSocket
    /\ InitCond
    /\ InitHost
    /\ \/ platform \in Hosts /\ orig \in ProbeEnvelopes
       \/ platform \in Hosts /\ orig \in {Issued(c, StatusApproved) : c \in ExecContents}
       \/ platform \in Hosts /\ orig \in {Issued(c, StatusApproved) : c \in InvalidContents}
       \/ platform \in AllHosts
            /\ orig \in {Issued(c, StatusApproved) : c \in PlatformContents}
       \/ platform \in Hosts /\ orig \in {Issued(c, StatusApproved) : c \in RollbackContents}
    /\ sp = orig
    /\ mode = "none"
    /\ pc = "idle"
    /\ report = NewReport("none")
    /\ retErr = "nil"
    /\ playbook = <<>>
    /\ vars = NewVariables(platform)
    /\ notifiedHandlers = {}
    /\ idx = 1
    /\ hidx = 1
    /\ stack = <<>>
    /\ ctxDone = FALSE
    /\ trace = <<>>

\* The content of the envelope is altered between the control plane and
\* the agent; hash, signature and status are left as issued.
Tamper ==
    /\ pc = "idle"
    /\ sp = orig
    /\ \E c \in ProbeContents :
          /\ c # sp.Content
          /\ sp' = [sp EXCEPT !.Content = c]
    /\ UNCHANGED <<others, platform, orig, mode, pc, report, retErr, playbook, vars,
                   notifiedHandlers, idx, hidx, stack, ctxDone, trace>>

Next ==
    \/ Tamper
    \/ ExecuteBegin
    \/ DryRun
    \/ TaskLoop
    \/ \E o \in Outcomes : Attempt(o)
    \/ RetryDelay
    \/ HandlerLoop
    \/ Cancel

Spec == Init /\ [][Next]_vars_all

\* An agent whose executor is idle
ExecutorIdle ==
    /\ platform = PlatformLinux
    /\ orig = Issued(<<DocMinimal>>, StatusApproved)
    /\ sp = orig
    /\ mode = "none"
    /\ pc = "idle"
    /\ report = NewReport("none")
    /\ retErr = "nil"
    /\ playbook = <<>>
    /\ vars = NewVariables(platform)
    /\ notifiedHandlers = {}
    /\ idx = 1
    /\ hidx = 1
    /\ stack = <<>>
    /\ ctxDone = FALSE
    /\ trace = <<>>

\* The job runner on its own
InitJobRunner == InitJobs /\ InitWebSocket /\ InitCond /\ InitHost /\ ExecutorIdle

NextJobs ==
    \/ \E g \in Goroutines : RunOnce(g)
    \/ \E g \in Goroutines, failed \in BOOLEAN, js \in JobLists : GetPendingJobs(g, failed, js)
    \/ \E g \in Goroutines : JobLoop(g)
    \/ \E g \in Goroutines, failed \in BOOLEAN : MarkJobStarted(g, failed)
    \/ \E g \in Goroutines, failed \in BOOLEAN : GetPlaybook(g, failed)
    \/ \E g \in Goroutines : ExecuteJob(g)
    \/ \E g \in Goroutines : Release(g)
    \/ CancelAgent

SpecJobs == InitJobRunner /\ [][NextJobs]_vars_all

\* Condition.Evaluate on its own, applied to each expression of CondInputs
InitCondition ==
    /\ InitJobs
    /\ InitWebSocket
    /\ InitHost
    /\ ExecutorIdle
    /\ condOperands \in CondInputs
    /\ condExpression = CondText(condOperands)
    /\ condResult = <<>>
    /\ condSubstituted = <<>>
    /\ subInput = String(<<>>)
    /\ subOutput = <<>>

NextCondition == EvaluateCall \/ SubstituteCall

SpecCondition == InitCondition /\ [][NextCondition]_vars_all

\* Substitute and SubstituteMap on their own, applied to each input
InitSubstitute ==
    /\ InitJobs
    /\ InitWebSocket
    /\ InitHost
    /\ ExecutorIdle
    /\ condOperands = [form |-> "a or b", a |-> <<"true">>, b |-> <<"true">>,
                       c |-> <<"true">>, d |-> <<"true">>]
    /\ condExpression = <<>>
    /\ condResult = <<>>
    /\ condSubstituted = <<>>
    /\ subInput \in SubstInputs
    /\ subOutput = <<>>

NextSubstitute == SubstituteStringCall \/ SubstituteMapCall

SpecSubstitute == InitSubstitute /\ [][NextSubstitute]_vars_all

\* The WebSocket connection on its own.  The main loop of runAgent keeps
\* taking its select cases, and the control plane comes back after an outage.
InitConnection ==
    /\ InitJobs
    /\ InitCond
    /\ InitHost
    /\ ExecutorIdle
    /\ wsPc = "connect"
    /\ wsConnected = FALSE
    /\ wsDone = "open"
    /\ serverAccepts \in BOOLEAN
    /\ wsLosses = 0
    /\ wsOutages = 0
    /\ jobChannel = 0
    /\ wsDropped = FALSE
    /\ issued = {}
    /\ pending = {}

NextConnection ==
    \/ ConnectFirst
    \/ ConnectionLost
    \/ Reconnect
    \/ NewJobMessage
    \/ TakeNotification
    \/ ServerStops
    \/ ServerStarts

SpecConnection ==
    /\ InitConnection
    /\ [][NextConnection]_vars_all
    /\ WF_vars_all(ConnectFirst)
    /\ WF_vars_all(Reconnect)
    /\ WF_vars_all(TakeNotification)
    /\ WF_vars_all(ServerStarts)

\* The agent in its main loop while jobs are created, the channel holding
\* the notifications of earlier jobs.  The poll
\* ticker keeps firing, the goroutines keep running, and the control plane
\* does not fail for ever to answer a call.
InitPolling ==
    /\ InitJobs
    /\ InitCond
    /\ InitHost
    /\ ExecutorIdle
    /\ wsPc = "loop"
    /\ wsConnected \in BOOLEAN
    /\ wsDone = "open"
    /\ serverAccepts = TRUE
    /\ wsLosses = 0
    /\ wsOutages = 0
    /\ jobChannel \in 0..ChannelCap
    /\ wsDropped = FALSE
    /\ issued = {}
    /\ pending = {}

NextPolling ==
    \/ \E j \in JobIDs : IssueJob(j)
    \/ RunOnce(<<"initial", 1>>)
    \/ PollTick
    \/ \E g \in Goroutines : NotifiedRun(g)
    \/ \E g \in Goroutines : FetchPending(g)
    \/ \E g \in Goroutines : FetchFails(g)
    \/ \E g \in Goroutines : MarkStarted(g)
    \/ \E g \in Goroutines : MarkJobStarted(g, TRUE)
    \/ \E g \in Goroutines : RunnerStep(g)
    \/ ConnectionLost

SpecPolling ==
    /\ InitPolling
    /\ [][NextPolling]_vars_all
    /\ WF_vars_all(PollTick)
    /\ \A g \in Goroutines : WF_vars_all(RunnerStep(g))
    /\ \A g \in Goroutines : WF_vars_all(FetchPending(g) \/ FetchFails(g))
    /\ \A g \in Goroutines : WF_vars_all(MarkStarted(g) \/ MarkJobStarted(g, TRUE))
    /\ SF_vars_all(FetchPending(<<"poll", 1>>))
    /\ \A j \in JobIDs :
          SF_vars_all(MarkStarted(<<"poll", 1>>) /\ job[<<"poll", 1>>] = <<j>>)

\* The action handlers on their own, each call applied to each host
InitHandlers ==
    /\ InitJobs
    /\ InitWebSocket
    /\ InitCond
    /\ ExecutorIdle
    /\ host \in HostStates
    /\ hcall \in HandlerCalls
    /\ hruns = <<>>

NextHandlers == RunHandler

SpecHandlers == InitHandlers /\ [][NextHandlers]_vars_all

-----------------------------------------------------------------------------
(* The admission gate                                                      *)

\* The admission rules stated on the envelope itself: presence of the three
\* fields, digest, signature by the pinned key over the raw digest, status.
PresenceOK(s)  == s.Content # <<>> /\ s.SHA256Hash # <<>> /\ s.Signature # <<>>
DigestOK(s)    == s.SHA256Hash = CalculateHash(s.Content)
SignatureOK(s) == s.Signature = Sign(ServerKey, "raw", Sha256Sum(s.Content))
ApprovalOK(s)  == s.Status \in {"approved", "test"}
Admissible(s)  == PresenceOK(s) /\ DigestOK(s) /\ SignatureOK(s) /\ ApprovalOK(s)

NoFlags(r) == ~r.HashVerified /\ ~r.SignatureVerified /\ ~r.ApprovalVerified

\* C1: when an envelope fails one of the admission rules, Verify fails, and
\* Execute and DryRun return that error with a report of status `rejected`
\* and no task results, having parsed nothing, dispatched nothing and called
\* no handler (the trace of what the execution did is empty).
C1_VerifyFailureRejects ==
    (mode # "none" /\ ~Admissible(sp)) =>
        /\ Verify(sp).err # "nil"
        /\ pc = "done"
        /\ retErr = Verify(sp).err
        /\ report.Status = "rejected"
        /\ report.TaskResults = <<>>
        /\ trace = <<>>

C1_Witness ==
    /\ mode = "dryrun"
    /\ PresenceOK(sp) /\ DigestOK(sp) /\ ApprovalOK(sp) /\ ~SignatureOK(sp)
    /\ report.Status = "rejected"

C3_FirstFailingCheckDecides ==
    LET V == Verify(sp)
        r == V.record
    IN  /\ sp.Content = <<>> => (V.err = "ErrEmptyContent" /\ NoFlags(r))
        /\ (sp.Content # <<>> /\ sp.SHA256Hash = <<>>) =>
              (V.err = "ErrMissingHash" /\ NoFlags(r))
        /\ (sp.Content # <<>> /\ sp.SHA256Hash # <<>> /\ sp.Signature = <<>>) =>
              (V.err = "ErrMissingSignature" /\ NoFlags(r))
        /\ (PresenceOK(sp) /\ ~DigestOK(sp)) =>
              (V.err = "ErrHashMismatch" /\ NoFlags(r))
        /\ (PresenceOK(sp) /\ DigestOK(sp) /\ ~SignatureOK(sp)) =>
              /\ V.err = "ErrInvalidSignature"
              /\ r.HashVerified /\ ~r.SignatureVerified /\ ~r.ApprovalVerified
        /\ (PresenceOK(sp) /\ DigestOK(sp) /\ SignatureOK(sp) /\ ~ApprovalOK(sp)) =>
              /\ V.err = "ErrNotApproved"
              /\ r.HashVerified /\ r.SignatureVerified /\ ~r.ApprovalVerified
        /\ V.err # "nil" => (r.FailureReason # "" /\ ~r.AllChecksPass)
        /\ mode # "none" => (report.Verification = r)

C3_Witness ==
    /\ mode = "execute"
    /\ PresenceOK(sp) /\ ~DigestOK(sp) /\ ~SignatureOK(sp) /\ sp.Status = "pending"
    /\ report.Verification.FailureReason = "hash mismatch"
    /\ NoFlags(report.Verification)

\* C4: when the content of an envelope that passes Verify is replaced by a
\* different content, hash and signature unchanged, Verify fails with
\* hash_verified = false, Execute and DryRun return status `rejected`, and
\* nothing is parsed or dispatched.
C4_TamperedContentRejected ==
    (Verify(orig).err = "nil" /\ sp.Content # orig.Content) =>
        /\ sp.SHA256Hash = orig.SHA256Hash /\ sp.Signature = orig.Signature
        /\ Verify(sp).err # "nil"
        /\ ~Verify(sp).record.HashVerified
        /\ mode # "none" =>
              /\ report.Status = "rejected"
              /\ ~report.Verification.HashVerified
              /\ report.TaskResults = <<>>
              /\ trace = <<>>

C4_Witness ==
    /\ mode = "execute"
    /\ Verify(orig).err = "nil"
    /\ sp.Content # orig.Content /\ sp.Content # <<>>
    /\ report.Status = "rejected"
    /\ report.Verification.FailureReason = "hash mismatch"

\* C5: every report of Execute and DryRun carries the record Verify made for
\* the envelope, with expected_hash the envelope's hash and approval_status
\* the envelope's status, whatever the final status; a report with task
\* results, or an execution that dispatched a task, has all_checks_pass.
C5_ReportCarriesVerification ==
    mode # "none" =>
        /\ report.Verification = Verify(sp).record
        /\ report.Verification.ExpectedHash = sp.SHA256Hash
        /\ report.Verification.ApprovalStatus = sp.Status
        /\ pc = "done" =>
              report.Status \in {"rejected", "failed", "cancelled", "completed",
                                 "dry_run_ok", "dry_run_failed"}
        /\ (report.TaskResults # <<>> \/ trace # <<>>) =>
              report.Verification.AllChecksPass

C5_Witness ==
    /\ pc = "done"
    /\ report.Status = "cancelled"
    /\ report.TaskResults # <<>>
    /\ report.Verification.AllChecksPass
    /\ report.Verification.ExpectedHash = sp.SHA256Hash

-----------------------------------------------------------------------------
(* The task loop and the handler phase                                     *)

\* Positions of the trace with event ev of a task run from `origin`
At(ev, origin) ==
    {k \in 1..Len(trace) : trace[k].ev = ev /\ trace[k].origin = origin}

\* Handler entry j has been run (executeTask was called for it)
HandlerDispatched(j) == \E k \in At("dispatch", "handler") : trace[k].idx = j

\* The results of the entries of `tasks` (handler results come after them)
TaskResultsOnly ==
    SubSeq(report.TaskResults, 1,
           IF Len(report.TaskResults) < Len(playbook[1].Tasks)
           THEN Len(report.TaskResults) ELSE Len(playbook[1].Tasks))

\* Some task that has name N in its notify list completed with changed
NotifiedBy(N) ==
    \E i \in 1..Len(TaskResultsOnly) :
        /\ TaskResultsOnly[i].Status = TaskStatusCompleted
        /\ TaskResultsOnly[i].Changed
        /\ \E k \in 1..Len(playbook[1].Tasks[i].Notify) :
              playbook[1].Tasks[i].Notify[k] = N

Executing == mode = "execute" /\ playbook # <<>>

C7_HandlerNameRunsOnce ==
    Executing =>
        \A k1, k2 \in At("dispatch", "handler") :
            trace[k1].name = trace[k2].name => k1 = k2

\* The top-level dispatches and returns (those of tasks and handlers, not
\* of rollback tasks), and how many of a set of positions lie before k
TopLevel(ev) == At(ev, "task") \cup At(ev, "handler")

Before(S, k) == Cardinality({q \in S : q < k})

\* C8: tasks are dispatched in the order of `tasks`, each after the one
\* before has returned with a terminal status; handlers are dispatched after
\* the last task has returned, in the order of `handlers`; a task or handler
\* is dispatched only when the one dispatched before has returned; and
\* report.task_results lists the results in the order of the dispatches.
C8_DispatchOrder ==
    Executing =>
        /\ \A p \in At("dispatch", "task") :
              /\ trace[p].idx = Before(At("dispatch", "task"), p) + 1
              /\ trace[p].idx > 1 =>
                    \E q \in At("return", "task") :
                        /\ q < p
                        /\ trace[q].idx = trace[p].idx - 1
                        /\ trace[q].status \in {TaskStatusCompleted, TaskStatusFailed,
                                                TaskStatusSkipped}
        /\ \A p \in At("dispatch", "handler") :
              /\ \E q \in At("return", "task") :
                    q < p /\ trace[q].idx = Len(playbook[1].Tasks)
              /\ \A q \in At("dispatch", "task") : q < p
              /\ \A q \in At("dispatch", "handler") :
                    q < p => trace[q].idx < trace[p].idx
        /\ \A p \in TopLevel("dispatch") :
              Before(TopLevel("return"), p) = Before(TopLevel("dispatch"), p)
        /\ Len(report.TaskResults) = Cardinality(TopLevel("return"))
        /\ \A p \in TopLevel("return") :
              LET n == Before(TopLevel("return"), p) + 1
              IN  /\ report.TaskResults[n].TaskName = trace[p].name
                  /\ report.TaskResults[n].Status = trace[p].status
                  /\ Before(TopLevel("dispatch"), p) = n

C8_Witness ==
    /\ Executing /\ pc = "done" /\ report.Status = "completed"
    /\ Len(playbook[1].Tasks) = 2
    /\ Len(report.TaskResults) = 4
    /\ report.TaskResults[3].TaskName = "restart"
    /\ report.TaskResults[4].TaskName = "reload"

\* The task, if any, whose result the name r stands for when the task at
\* position j is run: the last one before j that registers r
Registrars(r, j) == {k \in 1..(j - 1) : playbook[1].Tasks[k].Register = r}

LastRegistrar(r, j) == CHOOSE k \in Registrars(r, j) : \A m \in Registrars(r, j) : m <= k

\* What the `when` condition and the params of the task about to run read
\* for r.stdout, r.exit_code, r.status, r.changed and "{{ r.stdout }}"
ReadR ==
    [stdout    |-> resolveValue(vars, "r.stdout"),
     exit_code |-> resolveValue(vars, "r.exit_code"),
     status    |-> resolveValue(vars, "r.status"),
     changed   |-> resolveValue(vars, "r.changed"),
     param     |-> Substitute(vars, <<"{{ r.stdout }}">>)]

\* The same reads when they show the fields of `result`
Shown(result) ==
    [stdout    |-> [val |-> result.Stdout, err |-> FALSE],
     exit_code |-> [val |-> Itoa(result.ExitCode), err |-> FALSE],
     status    |-> [val |-> result.Status, err |-> FALSE],
     changed   |-> [val |-> FormatBool(result.Changed), err |-> FALSE],
     param     |-> [val |-> <<result.Stdout>>, err |-> FALSE]]

\* The same reads when no result is stored under r: a condition reads the
\* empty string and substitution fails
Unregistered ==
    [stdout    |-> [val |-> "", err |-> FALSE],
     exit_code |-> [val |-> "", err |-> FALSE],
     status    |-> [val |-> "", err |-> FALSE],
     changed   |-> [val |-> "", err |-> FALSE],
     param     |-> [val |-> <<"{{ r.stdout }}">>, err |-> TRUE]]

ReaderParams == [command |-> <<"echo ", "{{ r.stdout }}">>]

TaskOf(origin, i) ==
    IF origin = "task" THEN playbook[1].Tasks[i] ELSE playbook[1].Handlers[i]

\* C10: a task (or handler) whose `platform` is set and differs from the
\* host's is skipped: after its dispatch and the `running` progress call it
\* returns `skipped` at once, with no condition evaluation, handler lookup,
\* substitution or handler call, whether or not a handler is registered for
\* its action; it never counts as failed and the next task is run.
C10_PlatformFilterSkips ==
    Executing =>
        /\ \A p \in TopLevel("dispatch") :
              LET t == TaskOf(trace[p].origin, trace[p].idx)
              IN  (t.Platform # "" /\ t.Platform # platform) =>
                      /\ Len(trace) >= p + 2
                      /\ trace[p + 1].ev = "progress"
                      /\ trace[p + 2].ev = "return"
                      /\ trace[p + 2].status = TaskStatusSkipped
                      /\ trace[p + 2].origin = trace[p].origin
                      /\ trace[p + 2].idx = trace[p].idx
        /\ \A i \in 1..Len(TaskResultsOnly) :
              LET t == playbook[1].Tasks[i]
              IN  (t.Platform # "" /\ t.Platform # platform) =>
                      /\ TaskResultsOnly[i].Status = TaskStatusSkipped
                      /\ idx > i
                      /\ (report.Status = "failed" => Len(TaskResultsOnly) > i)

C10_Witness ==
    /\ Executing /\ pc = "done" /\ report.Status = "completed"
    /\ platform = PlatformLinux
    /\ playbook[1].Tasks[1].Action = ActionPackage
    /\ playbook[1].Tasks[1].Platform = PlatformAndroid
    /\ report.TaskResults[1].Status = TaskStatusSkipped
    /\ Len(playbook[1].Tasks) = 2
    /\ report.TaskResults[2].Status = TaskStatusCompleted

\* The activations of executeTask: (origin, idx) of a task, a handler or the
\* rollback task of task idx; the task run by an activation; and the
\* positions of the trace where an activation does ev
Activations ==
    {<<trace[k].origin, trace[k].idx>> : k \in {q \in 1..Len(trace) : trace[q].ev = "dispatch"}}

ActivationTask(a) ==
    IF a[1] = "rollback" THEN playbook[1].Tasks[a[2]].Rollback[1] ELSE TaskOf(a[1], a[2])

Of(ev, a) == {k \in At(ev, a[1]) : trace[k].idx = a[2]}

\* C11: an activation of a task with retries = n calls the handler at most
\* n+1 times; once it has returned `failed` from the retry loop with no
\* cancellation it has made exactly n+1 calls; a call that succeeds is the
\* last one and is followed at once by the `completed` progress call and the
\* return with `completed`; a retry delay starts right after a failed call
\* that is not the last allowed one, and is followed by the next call or,
\* on cancellation, by the return.
C11_RetryLoop ==
    Executing =>
        \A a \in Activations :
            LET n     == ActivationTask(a).Retries
                tries == Of("execute", a)
                rets  == Of("return", a)
            IN  /\ Cardinality(tries) <= n + 1
                /\ \A r \in rets :
                      /\ (trace[r].status = TaskStatusFailed /\ tries # {} /\ ~ctxDone)
                            => Cardinality(tries) = n + 1
                      /\ trace[r].status = TaskStatusCompleted =>
                            /\ tries # {}
                            /\ \A c \in tries : c <= r - 2
                            /\ r - 2 \in tries
                            /\ trace[r - 1].ev = "progress"
                            /\ trace[r - 1].status = TaskStatusCompleted
                      /\ \A c \in tries : c < r
                /\ \A d \in Of("delay", a) :
                      /\ d - 1 \in tries
                      /\ ActivationTask(a).RetryDelay > 0
                      /\ Before(tries, d) <= n
                      /\ Len(trace) > d =>
                            \/ d + 1 \in tries
                            \/ /\ d + 1 \in rets
                               /\ ctxDone
                               /\ trace[d + 1].status = TaskStatusFailed
                /\ \A c \in tries :
                      (Before(tries, c) >= 1 /\ ActivationTask(a).RetryDelay > 0)
                          => c - 1 \in Of("delay", a)

\* A task with retries = 1 and a retry delay has failed twice, waiting once
\* in between, and its rollback task has run; the context is not cancelled.
C11_Witness ==
    /\ Executing /\ ~ctxDone
    /\ \E a \in Activations :
          /\ a[1] = "task"
          /\ ActivationTask(a).Retries = 1
          /\ Cardinality(Of("execute", a)) = 2
          /\ Cardinality(Of("delay", a)) = 1
          /\ \E r \in Of("return", a) : trace[r].status = TaskStatusFailed

-----------------------------------------------------------------------------
(* Failure handling                                                        *)

\* The on_error strategy of the playbook: "" when there is no on_error block
Strategy == IF playbook[1].OnError = <<>> THEN "" ELSE playbook[1].OnError[1].Strategy

\* Task i has returned `failed` and does not set ignore_errors
FailedHard(i) ==
    /\ i <= Len(TaskResultsOnly)
    /\ TaskResultsOnly[i].Status = TaskStatusFailed
    /\ ~playbook[1].Tasks[i].IgnoreErrors

\* C12: when task i has ended `failed` without ignore_errors and the strategy
\* is not `continue` (no on_error block, `stop`, `rollback` or an empty
\* strategy), Execute has returned with status `failed` and no later task was
\* dispatched; when a failed task sets ignore_errors or the strategy is
\* `continue`, the loop has gone on to the next task.
C12_FailureAbortsUnlessContinue ==
    Executing =>
        \A i \in 1..Len(TaskResultsOnly) :
            /\ (FailedHard(i) /\ Strategy # "continue") =>
                  /\ pc = "done"
                  /\ report.Status = "failed"
                  /\ Len(TaskResultsOnly) = i
                  /\ \A p \in At("dispatch", "task") : trace[p].idx <= i
            /\ (TaskResultsOnly[i].Status = TaskStatusFailed
                  /\ (playbook[1].Tasks[i].IgnoreErrors \/ Strategy = "continue")) =>
                  idx > i

\* C13: with strategy `rollback`, once a task has failed without
\* ignore_errors, Execute has returned with status `failed` after running the
\* rollback block of every task completed before it, the later completed
\* first.
C13_RollbackStrategyUnwinds ==
    (Executing /\ Strategy = "rollback") =>
        \A i \in 1..Len(TaskResultsOnly) :
            FailedHard(i) =>
                /\ pc = "done"
                /\ report.Status = "failed"
                /\ \A k \in 1..(i - 1) :
                      (TaskResultsOnly[k].Status = TaskStatusCompleted
                         /\ playbook[1].Tasks[k].Rollback # <<>>) =>
                          \E p \in At("dispatch", "rollback") :
                              /\ trace[p].idx = k
                              /\ \A q \in At("return", "task") : trace[q].idx = i => q < p
                              /\ \A p2 \in At("dispatch", "rollback") :
                                    (trace[p2].idx > k /\ trace[p2].idx < i
                                       /\ TaskResultsOnly[trace[p2].idx].Status
                                             = TaskStatusCompleted) => p2 < p

\* C14: once the context has been cancelled during an execution and Execute
\* has returned, the report has status `cancelled` and lists the result of
\* every task that had returned.
C14_CancelledOnTrip ==
    (Executing /\ ctxDone /\ pc = "done") =>
        /\ report.Status = "cancelled"
        /\ Len(report.TaskResults) = Cardinality(TopLevel("return"))

\* The progress calls made for activation a
Progress(a) == Of("progress", a)

Terminal == {TaskStatusCompleted, TaskStatusFailed, TaskStatusSkipped}

\* C15: every activation of executeTask that has returned (task, handler or
\* rollback task) has made exactly one progress call with `running`, then
\* exactly one with a terminal status, the status it returned with, and no
\* call for another task lies between the two.
C15_ProgressRunningThenTerminal ==
    Executing =>
        \A a \in Activations :
            \A r \in Of("return", a) :
                LET running == {k \in Progress(a) : trace[k].status = TaskStatusRunning}
                    final   == {k \in Progress(a) : trace[k].status \in Terminal}
                IN  /\ Cardinality(running) = 1
                    /\ Cardinality(final) = 1
                    /\ \A k \in running, m \in final :
                          /\ k < m
                          /\ trace[m].status = trace[r].status
                          /\ \A q \in (k + 1)..(m - 1) :
                                trace[q].ev = "progress" =>
                                    <<trace[q].origin, trace[q].idx>> = a

-----------------------------------------------------------------------------
(* Job dispatch                                                            *)

\* The calls of CheckAndRunJobs that hold the flag, and those that are
\* running a job (between MarkJobStarted and the return of executeJob)
Holding == {g \in Goroutines : gpc[g] # "idle"}

InJob == {g \in Goroutines : gpc[g] \in {"mark", "playbook", "execute"}}

\* C16: whatever the interleaving of the goroutines that call RunOnce, at
\* most one call of CheckAndRunJobs is past the busy test at any time, so at
\* most one job (one playbook execution) is in progress and the jobs fetched
\* by one call never run alongside those of another; the flag is set exactly
\* while such a call exists.
C16_OneExecutionAtATime ==
    /\ Cardinality(Holding) <= 1
    /\ Cardinality(InJob) <= 1
    /\ \A g \in Goroutines : job[g] # <<>> <=> g \in InJob
    /\ isRunning <=> Holding # {}

\* A playbook execution is in progress in one goroutine while the calls of
\* two others have returned at once because the runner was busy.
C16_Witness ==
    \E g \in Goroutines :
        /\ gpc[g] = "execute"
        /\ Cardinality({h \in Goroutines \ {g} : ret[h] = "busy" /\ calls[h] > 0}) >= 2

-----------------------------------------------------------------------------
(* Dry run                                                                 *)

\* C17: a dry run returns without having dispatched a task: no handler is
\* looked up for execution, no handler's Execute is called, no task result
\* is registered, and nothing but verification and parsing has been done.
C17_DryRunDispatchesNothing ==
    mode = "dryrun" =>
        /\ pc = "done"
        /\ stack = <<>>
        /\ \A k \in 1..Len(trace) : trace[k].ev = "parse"
        /\ DOMAIN vars.taskResults = {}
        /\ notifiedHandlers = {}

\* A dry run of a playbook of three tasks that all have a registered
\* handler, no platform filter and a register name has ended dry_run_ok.
C17_Witness ==
    /\ mode = "dryrun"
    /\ report.Status = "dry_run_ok"
    /\ report.TasksTotal = 3
    /\ \A i \in 1..3 :
          /\ sp.Content[1].tasks[i].Register = "r"
          /\ sp.Content[1].tasks[i].Action \in handlers
          /\ report.TaskResults[i].Status = TaskStatusPending

\* The tasks of the envelope's playbook, and whether the one at position i
\* passes its platform filter / is one the dry run should report failing
DryTasks == sp.Content[1].tasks

PassesFilter(i) == DryTasks[i].Platform = "" \/ DryTasks[i].Platform = platform

DryFailing(i) ==
    /\ PassesFilter(i)
    /\ \/ DryTasks[i].Action \notin handlers
       \/ DryTasks[i].When # <<>> /\ ~ValidateCondition(DryTasks[i].When)

\* C18: a dry run of an envelope that passes verification and parsing ends
\* dry_run_ok or dry_run_failed; it ends dry_run_failed exactly when some
\* task that passes its platform filter has no registered handler or an
\* invalid `when`; a task filtered out by platform is reported `skipped`;
\* and tasks_failed is the number of failing tasks.
C18_DryRunVerdict ==
    (mode = "dryrun" /\ Verify(sp).err = "nil" /\ Parse(platform, sp.Content).err = "nil") =>
        /\ report.Status \in {"dry_run_ok", "dry_run_failed"}
        /\ report.Status = "dry_run_failed" <=> \E i \in 1..Len(DryTasks) : DryFailing(i)
        /\ \A i \in 1..Len(DryTasks) :
              ~PassesFilter(i) => report.TaskResults[i].Status = TaskStatusSkipped
        /\ report.TasksFailed = Cardinality({i \in 1..Len(DryTasks) : DryFailing(i)})

-----------------------------------------------------------------------------
(* Platform compatibility                                                  *)

\* The envelope is verified and its content is a playbook whose non-empty
\* `platforms` list names valid platforms but not the host's
ForeignPlaybook ==
    /\ Verify(sp).err = "nil"
    /\ Unmarshal(sp.Content).ok
    /\ LET platforms == Unmarshal(sp.Content).pb[1].Platforms
       IN  /\ Len(platforms) > 0
           /\ \A i \in 1..Len(platforms) :
                 isValidPlatform(platforms[i]) /\ platforms[i] # platform

\* C19: Execute of a verified playbook whose `platforms` list does not name
\* the host returns status `rejected` with ErrPlatformMismatch, has
\* dispatched no task, and its report has verification.all_checks_pass.
C19_PlatformMismatchRejected ==
    (mode = "execute" /\ ForeignPlaybook) =>
        /\ pc = "done"
        /\ report.Status = "rejected"
        /\ retErr = "ErrPlatformMismatch"
        /\ \A k \in 1..Len(trace) : trace[k].ev = "parse"
        /\ report.TaskResults = <<>>
        /\ report.Verification.AllChecksPass

-----------------------------------------------------------------------------
(* Conditions                                                              *)

\* What Evaluate returns for operand x on its own, and the short-circuit
\* conjunction and disjunction of two such results (q is looked at only
\* when p does not decide)
Operand(x) == Evaluate(CondVariables, x)

Raised == [val |-> FALSE, err |-> TRUE]

AndThen(p, q) ==
    IF p.err THEN Raised
    ELSE IF ~p.val THEN [val |-> FALSE, err |-> FALSE]
    ELSE IF q.err THEN Raised ELSE q

OrElse(p, q) ==
    IF p.err THEN Raised
    ELSE IF p.val THEN [val |-> TRUE, err |-> FALSE]
    ELSE IF q.err THEN Raised ELSE q

\* C20: `or` binds looser than `and` and evaluation short-circuits:
\* Evaluate("a or b and c") is a OR (b AND c) and Evaluate("a and b or c")
\* is (a AND b) OR c, an operand to the right of a deciding one being
\* neither evaluated nor able to raise an error.
C20_OrBindsLooserThanAnd ==
    (condResult # <<>>
         /\ condOperands.form \in {"a or b and c", "a and b or c", "a and b", "a or b"}) =>
        LET a == Operand(condOperands.a)
            b == Operand(condOperands.b)
            c == Operand(condOperands.c)
        IN  CASE condOperands.form = "a or b and c" ->
                    condResult[1] = OrElse(a, AndThen(b, c))
              [] condOperands.form = "a and b or c" ->
                    condResult[1] = OrElse(AndThen(a, b), c)
              [] condOperands.form = "a and b" ->
                    condResult[1] = AndThen(a, b)
              [] OTHER ->
                    condResult[1] = OrElse(a, b)

\* What Evaluate returns without an error
Yields(b) == [val |-> b, err |-> FALSE]

Falsy == {"", "false", "0", "no", "off", "null", "nil", "none"}

\* C21: for a single value with no operator, Evaluate("") and
\* Evaluate("true") are true, Evaluate("false") and Evaluate("0") are false,
\* Evaluate of a bare identifier (the undefined x, the defined who) is true,
\* and in general the value is false exactly when its resolved string,
\* trimmed and lower-cased, is one of "", false, 0, no, off, null, nil, none.
C21_Truthiness ==
    (condResult # <<>> /\ condOperands.form = "a") =>
        LET e == condOperands.a
        IN  /\ e \in {<<>>, <<"true">>} => condResult[1] = Yields(TRUE)
            /\ e \in {<<"false">>, <<"0">>} => condResult[1] = Yields(FALSE)
            /\ e \in {<<"x">>, <<"who">>} => condResult[1] = Yields(TRUE)
            /\ (Len(e) = 1 /\ e \notin {<<"true">>, <<"false">>}) =>
                  condResult[1] =
                      Yields(LowerTrim(resolveValue(CondVariables, e[1]).val) \notin Falsy)

-----------------------------------------------------------------------------
(* Handlers                                                                *)

\* C22: when a handler has been run twice in a row with the same params and
\* no error, nothing else having touched the host, at most one of the two
\* runs reports changed = true (command, file `touch`, service `restarted`
\* and lineinfile with a `regexp` the line does not match included).
C22_HandlersIdempotent ==
    (Len(hruns) >= 2 /\ ~hruns[1].err /\ ~hruns[2].err) =>
        ~(hruns[1].changed /\ hruns[2].changed)

-----------------------------------------------------------------------------
(* Variable lookup                                                         *)

\* C23: a name the playbook defines as a variable resolves to the user
\* value in both places, also when a built-in has the same name:
\* Substitute("{{ name }}") is the user value, and Evaluate("name == 'v'") is
\* true exactly when v is the user value.
C23_UserVariablesFirst ==
    (/\ condOperands.form = "a == b"
     /\ condOperands.a[1] \in DOMAIN CondVariables.userVars
     /\ condResult # <<>>
     /\ condSubstituted # <<>>) =>
        LET user == CondVariables.userVars[condOperands.a[1]]
        IN  /\ condSubstituted[1] = [val |-> <<user>>, err |-> FALSE]
            /\ condResult[1] = Yields(user = Quoted[condOperands.b[1]])

-----------------------------------------------------------------------------
(* Job reports                                                             *)

\* C24: every step in which executeJob returns for the job a call has taken
\* from the fetched list submits exactly one report for that job, whether
\* marking it started, fetching the playbook or executing it failed or not.
C24_OneReportPerJob ==
    [][\A g \in Goroutines :
          (job[g] # <<>> /\ job'[g] = <<>>) =>
              submitted' = [submitted EXCEPT ![job[g][1]] = @ + 1]]_vars_all

-----------------------------------------------------------------------------
(* Rollback of a task                                                      *)

\* The result of task i carries the outcome of its rollback task
CarriesRollback(result) ==
    \/ result.Message = "Rollback executed successfully"
    \/ \E k \in 1..Len(result.Error) : result.Error[k] = "rollback also failed"

\* C25: once a task that defines a rollback block has returned `failed`,
\* whatever the reason, its rollback task has been dispatched exactly once,
\* after the task's last attempt and before its return (so before the next
\* task or the abort), and the task's result carries the rollback outcome;
\* a task that returned `completed` or `skipped` has run no rollback.
C25_RollbackOnEveryFailure ==
    Executing =>
        \A i \in 1..Len(TaskResultsOnly) :
            LET a  == <<"task", i>>
                rb == Of("dispatch", <<"rollback", i>>)
            IN  /\ (playbook[1].Tasks[i].Rollback # <<>>
                      /\ TaskResultsOnly[i].Status = TaskStatusFailed) =>
                      /\ Cardinality(rb) = 1
                      /\ \A p \in rb :
                            /\ \A c \in Of("execute", a) : c < p
                            /\ \A r \in Of("return", a) : p < r
                      /\ CarriesRollback(TaskResultsOnly[i])
                /\ TaskResultsOnly[i].Status \in {TaskStatusCompleted, TaskStatusSkipped}
                      => rb = {}

-----------------------------------------------------------------------------
(* Cancellation                                                            *)

\* C26: once the context is cancelled, no step of the executor starts a
\* call of a handler's Execute: no further attempt of the current task, no
\* attempt of a rollback task, of a later task or of a notified handler.
C26_NoHandlerCallAfterCancel ==
    [][ctxDone =>
          \A k \in (Len(trace) + 1)..Len(trace') : trace'[k].ev # "execute"]_vars_all

-----------------------------------------------------------------------------
(* Parenthesised conditions                                                *)

\* The value of an expression of CondForms by the grammar: `or` of `and`s of
\* optionally negated comparisons, a parenthesised expression being a unit
GrammarValue(o) ==
    LET a == o.a = <<"true">>
        b == o.b = <<"true">>
        c == o.c = <<"true">>
        d == o.d = <<"true">>
    IN  CASE o.form = "a and (b or c)"         -> a /\ (b \/ c)
          [] o.form = "(a and b) or (c and d)" -> (a /\ b) \/ (c /\ d)
          [] o.form = "not (a or b)"           -> ~(a \/ b)
          [] o.form = "(a or b) and (c or d)"  -> (a \/ b) /\ (c \/ d)
          [] o.form = "((a or b) and c)"       -> (a \/ b) /\ c
          [] o.form = "not (a and b) or c"     -> ~(a /\ b) \/ c
          [] o.form = "a or b and (c or d)"    -> a \/ (b /\ (c \/ d))
          [] OTHER                             -> ((a \/ b) /\ c) \/ d

\* C27: for every expression of CondForms over true and false, Evaluate
\* returns, without error, the value the grammar gives it.
C27_ParenthesesHonoured ==
    (condResult # <<>> /\ condOperands.form \in CondForms) =>
        condResult[1] = Yields(GrammarValue(condOperands))

-----------------------------------------------------------------------------
(* The `when` clause                                                       *)

\* The positions a step adds to the trace
Added == (Len(trace) + 1)..Len(trace')

\* C28: in every step in which the `when` clause of a task, handler or
\* rollback task is evaluated: if the evaluation raises an error (as it does
\* for `r.exit_code > x`, and for `r.bogus` once r is registered) the task
\* returns `failed` at once; if it yields false the task returns `skipped`
\* at once and the task loop goes on to the next task; the handler is
\* looked up, and later called, only if it yields true.  No task that
\* returned right after the evaluation has had its handler called.
C28_WhenDecides ==
    [][\A k \in Added :
          trace'[k].ev = "evaluate" =>
              LET a    == <<trace'[k].origin, trace'[k].idx>>
                  task == ActivationTask(a)
                  c    == Evaluate(vars, task.When)
                  next == trace'[k + 1]
                  back == next.ev = "return" /\ <<next.origin, next.idx>> = a
                  none == \A q \in 1..Len(trace') :
                             (trace'[q].ev \in {"lookup", "substitute", "execute"})
                                 => <<trace'[q].origin, trace'[q].idx>> # a
              IN  /\ task.When # <<>>
                  /\ task.When = <<"r.exit_code", ">", "x">> => c.err
                  /\ (task.When = <<"r.bogus">> /\ "r" \in DOMAIN vars.taskResults)
                        => c.err
                  /\ c.err => (back /\ next.status = TaskStatusFailed /\ none)
                  /\ (~c.err /\ ~c.val) =>
                        /\ back /\ next.status = TaskStatusSkipped /\ none
                        /\ a[1] = "task" =>
                              (idx' = idx + 1 /\ pc' \in {"tasks", "handlers"})
                  /\ (~c.err /\ c.val) => next.ev = "lookup"
                  /\ next.ev = "lookup" => (~c.err /\ c.val)]_vars_all

\* The first task was skipped because its condition was false, and the
\* second failed because its condition, r.exit_code > x, raised an error;
\* no handler was called.
C28_Witness ==
    /\ Executing /\ pc = "done"
    /\ Len(report.TaskResults) = 2
    /\ report.TaskResults[1].Status = TaskStatusSkipped
    /\ report.TaskResults[1].Message = "Skipped: condition evaluated to false"
    /\ playbook[1].Tasks[2].When = <<"r.exit_code", ">", "x">>
    /\ report.TaskResults[2].Status = TaskStatusFailed
    /\ report.TaskResults[2].Error = <<"condition evaluation failed">>
    /\ At("execute", "task") = {}

-----------------------------------------------------------------------------
(* References to unknown variables in the params                          *)

\* The text part is a "{{ name }}" whose name is neither a user variable
\* nor a built-in, or a "{{ r.prop }}" of a registered r without that
\* property
UnknownReference(v, part) ==
    /\ part \in DOMAIN VarPattern
    /\ LET name == VarPattern[part]
       IN  IF name \in DOMAIN Dotted
           THEN /\ Dotted[name][1] \in DOMAIN v.taskResults
                /\ Dotted[name][2] \notin {"stdout", "stderr", "exit_code", "status",
                                            "changed"}
           ELSE name \notin (DOMAIN v.userVars \cup DOMAIN v.builtins)

\* The value holds such a reference at some depth of mappings and sequences
RECURSIVE RefersToUnknown(_, _)
RefersToUnknown(v, value) ==
    CASE value.kind = "string" ->
            \E i \in 1..Len(value.val) : UnknownReference(v, value.val[i])
      [] value.kind = "map" ->
            \E k \in DOMAIN value.val : RefersToUnknown(v, value.val[k])
      [] value.kind = "slice" ->
            \E i \in 1..Len(value.val) : RefersToUnknown(v, value.val[i])
      [] OTHER -> FALSE

\* C29: when the params of a task hold, at any depth of mappings and
\* sequences, a reference to an unknown variable or to an unknown property
\* of a registered result, SubstituteMap returns the variable error and no
\* params, so that the task fails and no handler sees the params.
C29_UnknownReferenceFails ==
    (subOutput # <<>> /\ subInput.kind = "map"
         /\ RefersToUnknown(SubstVariables, subInput)) =>
        (subOutput[1].err /\ subOutput[1].val = <<>>)

-----------------------------------------------------------------------------
(* Substitution is not recursive                                           *)

\* The text one substitution puts in the place of a part of the input: the
\* value of the environment variable, user variable, built-in or result
\* property the part refers to, and the part itself when it refers to
\* nothing or is no reference
InsertedText(v, part) ==
    IF part \in DOMAIN EnvPattern THEN
        IF Getenv(EnvPattern[part]) # "" THEN Getenv(EnvPattern[part]) ELSE part
    ELSE IF part \in DOMAIN VarPattern THEN
        LET name == VarPattern[part]
        IN  IF name \in DOMAIN EnvPrefixed THEN
                IF Getenv(EnvPrefixed[name]) # "" THEN Getenv(EnvPrefixed[name]) ELSE part
            ELSE IF name = "r.stdout" THEN v.taskResults["r"].Stdout
            ELSE IF name = "r.stderr" THEN v.taskResults["r"].Stderr
            ELSE IF name \in DOMAIN v.userVars THEN v.userVars[name]
            ELSE IF name \in DOMAIN v.builtins THEN v.builtins[name]
            ELSE part
    ELSE part

\* The inserted text holds the text of a reference
HoldsReference(text) == text \in DOMAIN EnvPattern \cup DOMAIN VarPattern

\* C30: the result of Substitute is the input with each reference replaced by
\* the text it stands for, and that text is not scanned again: a value
\* that holds "{{ name }}" or "${NAME}" appears in the result as it is.
C30_InsertedTextNotRescanned ==
    (subOutput # <<>> /\ subInput.kind = "string") =>
        \A i \in 1..Len(subInput.val) :
            LET text == InsertedText(SubstVariables, subInput.val[i])
            IN  (text # subInput.val[i] /\ HoldsReference(text)) =>
                    subOutput[1].val[i] = text

-----------------------------------------------------------------------------
(* What the parser lets through                                            *)

\* The playbook has a name and a task, and each of its tasks and handlers
\* has a name, an action of the action set, and retries and retry_delay
\* that are not negative
WellFormedTask(task) ==
    /\ task.Name # ""
    /\ task.Action \in {"command", "file", "lineinfile", "env", "service", "registry",
                        "sysctl", "defaults", "settings", "package"}
    /\ task.Retries >= 0
    /\ task.RetryDelay >= 0

WellFormedDocument(content) ==
    /\ content # <<>>
    /\ content[1].kind = "yaml"
    /\ content[1].name # ""
    /\ Len(content[1].tasks) >= 1
    /\ \A i \in 1..Len(content[1].tasks) : WellFormedTask(content[1].tasks[i])
    /\ \A i \in 1..Len(content[1].handlers) : WellFormedTask(content[1].handlers[i])

\* C31: once Execute has verified the envelope and parsed its content, a
\* playbook is in hand only if the document is well formed; for a document
\* that is not, Execute has returned status `failed` with the parse error
\* and has dispatched no task.
C31_ParseRejectsMalformed ==
    (mode = "execute" /\ Verify(sp).err = "nil") =>
        /\ playbook # <<>> => WellFormedDocument(sp.Content)
        /\ ~WellFormedDocument(sp.Content) =>
              /\ pc = "done"
              /\ playbook = <<>>
              /\ report.Status = "failed"
              /\ retErr \in {"ParseError", "ValidationError"}
              /\ report.TaskResults = <<>>
              /\ \A k \in 1..Len(trace) : trace[k].ev = "parse"

\* Execute has returned `failed` for a verified playbook whose second task
\* has retries -1
C31_Witness ==
    /\ mode = "execute" /\ pc = "done"
    /\ Verify(sp).err = "nil"
    /\ sp.Content # <<>> /\ sp.Content[1].kind = "yaml"
    /\ Len(sp.Content[1].tasks) = 2
    /\ sp.Content[1].tasks[2].Retries = -1
    /\ report.Status = "failed"
    /\ retErr = "ValidationError"

-----------------------------------------------------------------------------
(* Platform-exclusive actions                                              *)

\* The one platform an action is made for (<<>> for the other actions)
ExclusivePlatform(action) ==
    CASE action = "registry" -> <<"windows">>
      [] action = "sysctl"   -> <<"linux">>
      [] action = "defaults" -> <<"darwin">>
      [] action \in {"settings", "package"} -> <<"android">>
      [] OTHER -> <<>>

\* C32: whenever the handler of a task, rollback task or notified handler
\* has been called, the action is not platform-exclusive or the host is its
\* platform, whatever `platform` the task names.
C32_ExclusiveActionsOnTheirPlatform ==
    Executing =>
        \A k \in 1..Len(trace) :
            trace[k].ev = "execute" =>
                LET ex == ExclusivePlatform(
                              ActivationTask(<<trace[k].origin, trace[k].idx>>).Action)
                IN  ex = <<>> \/ ex[1] = platform

\* On a linux host the sysctl handler has been called for a task, which
\* named the platform linux
C32_Witness ==
    /\ Executing /\ platform = "linux"
    /\ playbook[1].Tasks[1].Action = "sysctl"
    /\ playbook[1].Tasks[1].Platform = "linux"
    /\ \E k \in At("execute", "task") : trace[k].idx = 1

-----------------------------------------------------------------------------
(* The `creates` guard of the command handler                              *)

\* C33: a call of the command handler with a `creates` path that exists when
\* the call starts leaves the host as it is (no child process is started,
\* no file is touched) and returns changed = false without an error.
C33_CreatesSkipsTheCommand ==
    [][(/\ hruns' # hruns
        /\ hcall.action = ActionCommand
        /\ Has(hcall.params, "creates")
        /\ host.file # <<>>) =>
           (/\ host' = host
            /\ ~hruns'[Len(hruns')].changed
            /\ ~hruns'[Len(hruns')].err)]_vars_all

-----------------------------------------------------------------------------
(* Reconnection                                                            *)

\* C34: whenever the agent has no WebSocket connection (the first attempt
\* failed, or the connection was lost) it gets one again later, the control
\* plane accepting connections again after each outage.
C34_ReconnectsForever == [](~wsConnected => <>wsConnected)

-----------------------------------------------------------------------------
(* Release of the runner                                                   *)

\* C35: whichever way a call of CheckAndRunJobs ends (fetch error, empty
\* list, cancellation between jobs, failing jobs, all jobs done) it goes
\* through the deferred release, so that once no call is in progress the
\* flag is free and the next call takes it; and a call that found the flag
\* set has returned at once, having fetched and executed nothing.
C35_FlagReleasedOnEveryExit ==
    /\ (\A g \in Goroutines : gpc[g] = "idle") => ~isRunning
    /\ \A g \in Goroutines :
          /\ ret[g] \in {"fetch error", "no jobs", "cancelled", "done"} =>
                gpc[g] \in {"release", "idle"}
          /\ ret[g] = "busy" =>
                (gpc[g] = "idle" /\ jobs[g] = <<>> /\ job[g] = <<>> /\ executed[g] = 0)
          /\ (~isRunning /\ gpc[g] = "idle" /\ calls[g] < CallsOf(g)) => ENABLED RunOnce(g)

\* No call is in progress and the flag is free after one call ended on a
\* fetch error, one on cancellation with a job left, and one after
\* executing a job.
C35_Witness ==
    /\ ~isRunning
    /\ \A g \in Goroutines : gpc[g] = "idle"
    /\ \E g1, g2, g3 \in Goroutines :
          /\ ret[g1] = "fetch error"
          /\ ret[g2] = "cancelled" /\ jobs[g2] # <<>>
          /\ ret[g3] = "done" /\ executed[g3] >= 1

-----------------------------------------------------------------------------
(* Fallback polling                                                        *)

-----------------------------------------------------------------------------
(* The counters of the report                                              *)

Counted(rep) == rep.TasksCompleted + rep.TasksFailed + rep.TasksSkipped

\* C37: in every report returned by Execute the three counters together
\* never exceed tasks_total, and on a completed report they sum to
\* tasks_total, whatever happened in the handler phase.
C37_CountersWithinTotal ==
    (pc = "done" /\ mode = "execute") =>
        /\ Counted(report) <= report.TasksTotal
        /\ report.Status = "completed" => Counted(report) = report.TasksTotal

-----------------------------------------------------------------------------
(* Completion                                                              *)

\* The task loop of Execute went past the last task
LoopRanThrough == Executing /\ idx > Len(playbook[1].Tasks)

\* The handlers that the task loop left notified
NotifiedIndexes ==
    {j \in 1..Len(playbook[1].Handlers) : playbook[1].Handlers[j].Name \in notifiedHandlers}

HandlerResults ==
    SubSeq(report.TaskResults, Len(playbook[1].Tasks) + 1, Len(report.TaskResults))

\* C38: when the task loop was neither aborted nor cancelled, Execute
\* returns completed, a nil error and the playbook's requires_reboot,
\* whatever tasks and notified handlers failed, and every notified handler
\* has been run.
C38_CompletesAfterTheLoop ==
    (pc = "done" /\ LoopRanThrough) =>
        /\ report.Status = "completed"
        /\ retErr = "nil"
        /\ report.RebootRequired = playbook[1].RequiresReboot
        /\ \A j \in NotifiedIndexes : Of("dispatch", <<"handler", j>>) # {}
        /\ Len(HandlerResults) = Cardinality(NotifiedIndexes)

\* A completed report with a failed task and a failed notified handler
\* that is followed by the result of another notified handler
C38_Witness ==
    /\ pc = "done"
    /\ LoopRanThrough
    /\ report.Status = "completed"
    /\ \E i \in 1..Len(playbook[1].Tasks) : report.TaskResults[i].Status = TaskStatusFailed
    /\ \E k \in 1..Len(HandlerResults) :
          /\ HandlerResults[k].Status = TaskStatusFailed
          /\ k < Len(HandlerResults)

-----------------------------------------------------------------------------
(* Registered results                                                      *)

\* The tasks that the loop has gone past
Passed == 1..(idx - 1)

\* The last task the loop has gone past that registers under r
Registering(r) == {i \in Passed : playbook[1].Tasks[i].Register = r}

LastRegistering(r) == CHOOSE i \in Registering(r) : \A k \in Registering(r) : k <= i

RegisterNames ==
    {playbook[1].Tasks[i].Register : i \in 1..Len(playbook[1].Tasks)}
      \cup {playbook[1].Handlers[j].Register : j \in 1..Len(playbook[1].Handlers)}

\* C39: the result stored under r is the result of the last task with
\* `register: r` that the loop went past, whatever its status (completed,
\* skipped, failed and ignored); the task whose failure ended the loop and
\* the notified handlers store nothing.
C39_RegisterFollowsTheLoop ==
    (Executing /\ pc # "verify") =>
        \A r \in RegisterNames \ {""} :
            IF Registering(r) = {}
            THEN r \notin DOMAIN vars.taskResults
            ELSE /\ r \in DOMAIN vars.taskResults
                 /\ vars.taskResults[r] = report.TaskResults[LastRegistering(r)]

\* A skipped task has replaced the output registered by an earlier task,
\* the next task has read the empty output in its condition, and a handler
\* with `register` has run
C39_Witness ==
    /\ Executing
    /\ pc = "done"
    /\ \E i \in Registering("r"), k \in Registering("r") :
          /\ i < k
          /\ k = LastRegistering("r")
          /\ report.TaskResults[i].Stdout # ""
          /\ report.TaskResults[k].Status = TaskStatusSkipped
          /\ k = i + 2
          /\ report.TaskResults[k - 1].Status \in {TaskStatusSkipped, TaskStatusFailed}
          /\ playbook[1].Tasks[k - 1].When = <<>>
          /\ playbook[1].Tasks[k].When = <<"r.stdout", "contains", "'installed'">>
          /\ vars.taskResults["r"].Stdout = ""
    /\ \E j \in 1..Len(playbook[1].Handlers) :
          /\ playbook[1].Handlers[j].Register = "r"
          /\ Of("execute", <<"handler", j>>) # {}

-----------------------------------------------------------------------------
(* Validation of the tasks that are run                                    *)

\* C40: every task that executeTask is called for, a rollback task
\* included, satisfies the parser's task validation, and its retry loop
\* makes at least one attempt.
C40_ProcessedTasksAreValid ==
    Executing =>
        \A a \in Activations :
            /\ validateTask(platform, ActivationTask(a))
            /\ maxAttempts(ActivationTask(a)) >= 1

====
